---- MODULE Spec2Model ----
(***************************************************************************)
(* State-machine model of the time-stepping engine of FESTIM:              *)
(*   - Simulation.run / Simulation.iterate (FESTIM/generic_simulation.py)  *)
(*   - the script run() of Cas_test_solubility/cas_test_solubility.py      *)
(*   - check_keys_derived_quantities / derived_quantities                  *)
(*     (FESTIM/post_processing.py)                                         *)
(*                                                                         *)
(* Times are integer ticks.  A field (u, u_n, T, T_n, a trap density) is   *)
(* represented by the tick of the time level it holds; Diverged marks the  *)
(* iterate a non-converged Newton solve leaves behind.                     *)
(***************************************************************************)
EXTENDS Integers, Sequences, FiniteSets, TLC

\* ------------------------------------------------------------------ bounds
MaxFinalTime == 3
MaxStepsize == 4
MaxTraps == 2
RetryBudget == 2

\* a step counter can never exceed this in a run that starts at t = 0 and
\* advances by at least one tick per step; the guards cap it there
MaxIter == MaxFinalTime + 1

\* largest amount a trap can hold
MaxInventory == 2
MaxConcentration == 1

\* ---------------------------------------------------------------- helpers
Min(a, b) == IF a < b THEN a ELSE b
Max(a, b) == IF a > b THEN a ELSE b

\* value of a field left by a non-converged solve
Diverged == 0 - 1

\* adaptive_stepsize["t_stop"] = None
NoStop == 0 - 1

\* ratio by which the stepsize controller grows / shrinks the stepsize
stepsize_change_ratio == 2

\* smallest stepsize the controller may produce (adaptive_stepsize["dt_min"])
dt_min == 1

\* the values of parameters["temperature"]["type"]
TemperatureTypes == {"expression", "solve_transient", "solve_stationary"}

\* parameters["traps"]: one flag per trap, TRUE when the trap dict has a
\* "type" key (an extrinsic trap)
TrapLists == UNION {[1..n -> BOOLEAN] : n \in 0..MaxTraps}

\* solving_parameters["adaptive_stepsize"] (on = the key is present)
AdaptiveConfigs ==
    { [on |-> FALSE, t_stop |-> NoStop, stepsize_stop_max |-> 0],
      [on |-> TRUE,  t_stop |-> NoStop, stepsize_stop_max |-> 0],
      [on |-> TRUE,  t_stop |-> 1,      stepsize_stop_max |-> 1] }

VARIABLES
    prog,               \* "sim": Simulation.run, "cas": the test-case script
    pc,                 \* position in run / iterate
    transient,          \* settings.transient
    final_time,         \* settings.final_time (Time in the script)
    adaptive_stepsize,  \* dt.adaptive_stepsize
    T_type,             \* T.type
    traps,              \* traps.traps (extrinsic flags)
    t,                  \* self.t
    dt,                 \* float(self.dt.value)
    nb_iterations,      \* self.nb_iterations
    u, u_n,             \* concentrations, previous concentrations
    T, T_n,             \* temperature, previous temperature
    density,            \* trap.density[0] per trap
    density_previous_solution,
    retries,            \* retries made by the current solve_it call
    converged,          \* result of solve_once in steady state
    err,                \* exception that ended the run, "" if none
    post_runs,          \* calls of run_post_processing so far
    final_write,        \* the end-of-run export.write() of run was reached
    returned,           \* run returned its output
    \* history variables, not program state
    trace,              \* phases performed in the current step, in order
    writes,             \* assignments to previous-value slots in this step
    main_converged,     \* the main solve of this step has succeeded
    density_solved,     \* traps whose density solve of this step succeeded
    last_commit,        \* the committed state after the last commit block
    \* the derived quantities of the script (DQSpec)
    dq_pc,              \* "off", "header", "stepping", "failed_setup",
                        \* "failed_run"
    derived_quantities_key,   \* the quantity key of the derived_quantities dict
    derived_quantities_entry, \* the entry listed under that key
    dq_err,             \* exception raised by the header or the evaluation
    dq_steps,           \* time steps whose derived quantities were computed
    \* model set-up (Simulation.__init__ / initialise,
    \* HydrogenTransportProblem.initialise)
    bc_parameters,       \* parameters["boundary_conditions"] (Simulation)
    bc_species,          \* what bc.species of each boundary condition is
                         \* (HydrogenTransportProblem)
    export_field,        \* what the entries of export.field of each export
                         \* are (HydrogenTransportProblem)
    initialise_calls,    \* history: calls of initialise
    flux_values,         \* run: the flux series
    declared,            \* history: bc_species and export_field as handed
                         \* to the constructor
    boundary_conditions, \* self.boundary_conditions
    bcs,                 \* self.bcs (Simulation), self.bc_forms
                         \* (HydrogenTransportProblem)
    species,             \* len(self.species)
    subdomains,          \* ids of the volume subdomains of self.subdomains
    volume_subdomains,   \* ids of self.volume_subdomains, in order
    sources,             \* self.sources: the species of each source
    formulation,         \* self.formulation / self.F: defined = FALSE for
                         \* None, terms = the terms added so far
    times,               \* the list times of HydrogenTransportProblem.run
    \* the script's formulation and the amounts it balances
    trap_materials,      \* trap['materials'] of each trap
    trap_density,        \* trap['density'] of each trap, integrated
    initial_inventory,   \* history: solute + trapped amount at t = 0
    mobile_inventory,    \* solutions[0] (times the solubility), integrated
    trap_inventory,      \* solutions[i], integrated, per trap
    previous_mobile_inventory,  \* the same for previous_solutions
    previous_trap_inventory,
    \* the fields of one call of run_post_processing
    solutions,           \* u.split(): the solved fields, the solute first,
                         \* each the sequence of its dof values
    solubility,          \* the property S over the dofs, << >> for None
    volume_markers,      \* the subdomain id of each cell
    res,                 \* the list res of run_post_processing
    label_to_function,   \* label_to_function of Simulation, << >> if unset
    tab,                 \* the list tab of derived_quantities
    computed_solutions,  \* compute_error: the entry of
                         \* error["computed_solutions"] looked at
    computed_sol,        \* compute_error: computed_sol, or the exception
    dq_parameters,       \* parameters["exports"]["derived_quantities"] of
                         \* the header and the row
    \* the mode and the derived-quantity history of a run
    solving_type,        \* solving_parameters["type"], "missing" if absent
    export_derived_quantities,  \* "derived_quantities" in the exports
    dt_object,           \* what dt is bound to: "unset", "None",
                         \* "Stepsize", "Constant", "0"
    derived_quantities_global,  \* the header, then one row per call
    step_times,          \* history: the time of each committed step
    steady_solves,       \* history: calls of solve_once so far
    solved_with,         \* history: the stepsize the last converged main
                         \* solve of solve_it was made with, 0 if none
    \* the exports
    nb_iterations_between_compute,  \* of the DerivedQuantities export
    export_xdmf,         \* an XDMF export is declared
    xdmf_append,         \* export.append (Simulation), append (script)
    computed_at,         \* history: the post-processing passes in which
                         \* the derived quantities were computed
    xdmf_writes          \* history: the mode of each snapshot written

vars == << prog, pc, transient, final_time, adaptive_stepsize, T_type, traps,
           t, dt, nb_iterations, u, u_n, T, T_n, density,
           density_previous_solution, retries, converged, err, post_runs,
           final_write, returned, trace, writes, main_converged,
           density_solved, last_commit, dq_pc, derived_quantities_key,
           derived_quantities_entry, dq_err, dq_steps,
           bc_parameters, bc_species, export_field, initialise_calls,
           flux_values, declared, boundary_conditions, bcs, species,
           subdomains,
           volume_subdomains, sources, formulation, times, trap_materials,
           trap_density, initial_inventory, mobile_inventory, trap_inventory,
           previous_mobile_inventory, previous_trap_inventory,
           solutions, solubility, volume_markers, res, label_to_function,
           tab, computed_solutions, computed_sol, dq_parameters,
           solving_type, export_derived_quantities, dt_object,
           derived_quantities_global, step_times, steady_solves,
           solved_with, nb_iterations_between_compute, export_xdmf,
           xdmf_append, computed_at, xdmf_writes >>

dq == << dq_pc, derived_quantities_key, derived_quantities_entry, dq_err,
         dq_steps >>
parameters == << prog, final_time, adaptive_stepsize, T_type, traps,
                trap_materials, trap_density, initial_inventory,
                solving_type, export_derived_quantities,
                nb_iterations_between_compute, export_xdmf >>
config == << parameters, transient >>
inventory == << mobile_inventory, trap_inventory, previous_mobile_inventory,
               previous_trap_inventory >>
history == << trace, writes, main_converged, density_solved, last_commit >>
outcome == << converged, err, post_runs, final_write, returned >>
TrapIds == 1..Len(traps)
ExtrinsicTraps == {i \in TrapIds : traps[i]}

model == << bc_species, export_field, initialise_calls, flux_values,
           declared >>
problem == << bc_parameters, model, boundary_conditions, bcs, species, subdomains,
             volume_subdomains, sources, formulation, times >>
\* what the time loop of Simulation.run and of the script never assigns
post == << solutions, solubility, volume_markers, res, label_to_function,
          tab, computed_solutions, computed_sol, dq_parameters >>
exports_state == << xdmf_append, computed_at, xdmf_writes >>
records == << dt_object, derived_quantities_global, step_times,
             steady_solves, solved_with, exports_state >>
extra == << problem, post, records >>

\* run: times, flux_values = [], []; flux_values_1, flux_values_2 = [], []
NoFluxes ==
    [flux_values |-> << >>, flux_values_1 |-> << >>, flux_values_2 |-> << >>]

\* no reference to a species is declared, nothing has been called
ModelIdle ==
    /\ bc_species = << >>
    /\ export_field = << >>
    /\ initialise_calls = 0
    /\ flux_values = NoFluxes
    /\ declared = << bc_species, export_field >>

\* no boundary condition is declared
ProblemIdle ==
    /\ bc_parameters = << >>
    /\ ModelIdle
    /\ boundary_conditions = << >>
    /\ bcs = << >>
    /\ species = 1
    /\ subdomains = << 1 >>
    /\ volume_subdomains = << >>
    /\ sources = << >>
    /\ formulation = [defined |-> FALSE, terms |-> << >>]
    /\ times = << >>

\* every trap lies in material 1; nothing is stored anywhere
InventoryIdle ==
    /\ trap_materials = [i \in TrapIds |-> {1}]
    /\ trap_density = [i \in TrapIds |-> 0]
    /\ initial_inventory = 0
    /\ mobile_inventory = 0
    /\ trap_inventory = [i \in TrapIds |-> 0]
    /\ previous_mobile_inventory = 0
    /\ previous_trap_inventory = [i \in TrapIds |-> 0]

\* compute_error: no reference to look up, nothing looked up
NoReference == [kind |-> "missing", num |-> 0, str |-> ""]
NotComputed == [exc |-> "", sol |-> << >>]

\* no post-processing call is looked at
PostIdle ==
    /\ solutions = << >>
    /\ solubility = << >>
    /\ volume_markers = << >>
    /\ res = << >>
    /\ label_to_function = << >>
    /\ tab = << >>
    /\ computed_solutions = NoReference
    /\ computed_sol = NotComputed
    /\ dq_parameters = << >>

\* what create_stepsize, resp. the script, binds dt to
StepsizeObject(program, is_transient) ==
    IF program = "sim" THEN (IF is_transient THEN "Stepsize" ELSE "None")
    ELSE (IF is_transient THEN "Constant" ELSE "0")

\* the mode has been selected from the type; nothing has been computed
RecordsIdle ==
    /\ solving_type = IF transient THEN "solve_transient"
                      ELSE "solve_stationary"
    /\ dt_object = StepsizeObject(prog, transient)
    /\ derived_quantities_global = << >>
    /\ step_times = << >>
    /\ steady_solves = 0
    /\ solved_with = 0

\* derived quantities computed in every pass, no XDMF export, nothing
\* computed or written
ExportsIdle ==
    /\ nb_iterations_between_compute = 1
    /\ export_xdmf = FALSE
    /\ xdmf_append = FALSE
    /\ computed_at = << >>
    /\ xdmf_writes = << >>

ExtraIdle ==
    /\ ProblemIdle
    /\ InventoryIdle
    /\ PostIdle
    /\ RecordsIdle
    /\ export_derived_quantities = FALSE
    /\ ExportsIdle


\* the committed state: what the commit block of a step leaves behind
Committed(time, n, prev_u, prev_T, prev_dens) ==
    [t |-> time, nb_iterations |-> n, u_n |-> prev_u, T_n |-> prev_T,
     density_previous_solution |-> prev_dens]

\* Simulation.__init__ + initialise, resp. the set-up part of the script
\* no "derived_quantities" export
NoEntry == [field |-> [kind |-> "missing", num |-> 0, str |-> ""],
            surfaces |-> FALSE, volumes |-> FALSE]

Init ==
    /\ dq_pc = "off"
    /\ derived_quantities_key = ""
    /\ derived_quantities_entry = NoEntry
    /\ dq_err = ""
    /\ dq_steps = 0
    /\ prog \in {"sim", "cas"}
    /\ transient \in BOOLEAN
    /\ final_time \in 0..MaxFinalTime
    /\ adaptive_stepsize \in AdaptiveConfigs
    /\ T_type \in TemperatureTypes
    /\ traps \in TrapLists
    /\ dt \in 1..MaxStepsize
    /\ (~transient) => /\ final_time = 0
                       /\ dt = 1
                       /\ adaptive_stepsize.on = FALSE
    /\ pc = "run"
    /\ t = 0
    /\ nb_iterations = 0
    /\ u = 0 /\ u_n = 0 /\ T = 0 /\ T_n = 0
    /\ density = [i \in TrapIds |-> 0]
    /\ density_previous_solution = [i \in TrapIds |-> 0]
    /\ retries = 0
    /\ converged = FALSE
    /\ err = ""
    /\ post_runs = 0
    /\ final_write = FALSE
    /\ returned = FALSE
    /\ trace = << >>
    /\ writes = << >>
    /\ main_converged = FALSE
    /\ density_solved = {}
    /\ last_commit = Committed(0, 0, 0, 0, [i \in TrapIds |-> 0])
    /\ ProblemIdle
    /\ InventoryIdle
    /\ PostIdle
    /\ RecordsIdle
    /\ export_derived_quantities \in
          IF prog = "cas" THEN BOOLEAN ELSE {FALSE}
    /\ ExportsIdle

\* ------------------------------------------------ history-variable helpers
Write(slot, idx, phase) == [slot |-> slot, idx |-> idx, phase |-> phase]

\* ------------------------------------------------- the stepsize controller
\* growth after a success inside the iteration band, bounded by the maximum
Grow(d) == Min(d * stepsize_change_ratio, MaxStepsize)

\* shrink after a divergence, bounded by the minimum
Shrink(d) == Max(d \div stepsize_change_ratio, dt_min)

\* after t_stop the stepsize is capped at stepsize_stop_max
Frozen(time, d) ==
    IF adaptive_stepsize.on /\ adaptive_stepsize.t_stop # NoStop
       /\ time >= adaptive_stepsize.t_stop
    THEN Min(d, adaptive_stepsize.stepsize_stop_max)
    ELSE d

\* stepsize left by a converged solve_it (in_band: the iteration count of
\* the solve was inside the target band)
AdaptOnSuccess(time, d, in_band) ==
    IF adaptive_stepsize.on
    THEN Frozen(time, IF in_band /\ retries = 0 THEN Grow(d) ELSE d)
    ELSE d

\* where a step goes after the main solve: the first extrinsic trap, if any
AfterMain == IF ExtrinsicTraps = {} THEN "post" ELSE "ext"

\* the trap the extrinsic loop solves next (traps are visited in list order)
NextExtrinsic ==
    CHOOSE i \in ExtrinsicTraps \ density_solved :
        \A j \in ExtrinsicTraps \ density_solved : i <= j

\* ------------------------------------------------------ solve_it (shared)
\* FESTIM.solve_it converges, possibly after retries
SolveItConverged ==
    /\ pc = "main"
    /\ \E in_band \in BOOLEAN : dt' = AdaptOnSuccess(t, dt, in_band)
    /\ u' = t
    /\ solved_with' = dt
    /\ main_converged' = TRUE
    /\ retries' = 0
    /\ trace' = IF retries = 0 THEN Append(trace, "main") ELSE trace
    /\ pc' = AfterMain
    /\ UNCHANGED << config, problem, post, dt_object,
                    derived_quantities_global, step_times, steady_solves, exports_state,
                    dq, t, nb_iterations, u_n, T, T_n, density,
                    density_previous_solution, outcome, writes,
                    density_solved, last_commit >>

\* FESTIM.solve_it: the solve diverged, adaptive stepsize is on and the
\* retry budget is not used up: shrink the stepsize, restore u, try again
SolveItRetry ==
    /\ pc = "main"
    /\ adaptive_stepsize.on
    /\ retries < RetryBudget
    /\ dt > dt_min
    /\ dt' = Shrink(dt)
    /\ retries' = retries + 1
    /\ trace' = IF retries = 0 THEN Append(trace, "main") ELSE trace
    /\ UNCHANGED << config, extra, inventory, dq, pc, t, nb_iterations, u, u_n, T, T_n, density,
                    density_previous_solution, outcome, writes,
                    main_converged, density_solved, last_commit >>

\* FESTIM.solve_it: the solve diverged and cannot shrink further
SolveItBoundsExceeded ==
    /\ pc = "main"
    /\ adaptive_stepsize.on
    /\ retries < RetryBudget
    /\ dt <= dt_min
    /\ u' = Diverged
    /\ pc' = "error"
    /\ err' = "StepsizeBoundsExceededError"
    /\ trace' = IF retries = 0 THEN Append(trace, "main") ELSE trace
    /\ UNCHANGED << config, extra, inventory, dq, t, dt, nb_iterations, u_n, T, T_n, density,
                    density_previous_solution, retries, converged, post_runs,
                    final_write, returned, writes, main_converged,
                    density_solved, last_commit >>

\* FESTIM.solve_it: the solve diverged with no retry left (or no adaptive
\* stepsize): the run is aborted
SolveItFailed ==
    /\ pc = "main"
    /\ ~(adaptive_stepsize.on /\ retries < RetryBudget)
    /\ u' = Diverged
    /\ pc' = "error"
    /\ err' = "ConvergenceFailureError"
    /\ trace' = IF retries = 0 THEN Append(trace, "main") ELSE trace
    /\ UNCHANGED << config, extra, inventory, dq, t, dt, nb_iterations, u_n, T, T_n, density,
                    density_previous_solution, retries, converged, post_runs,
                    final_write, returned, writes, main_converged,
                    density_solved, last_commit >>

\* ---------------------------------------------------------- Simulation.run
\* run: t = 0, then the transient loop or the steady-state solve
Run_Start ==
    /\ prog = "sim"
    /\ pc = "run"
    /\ t' = 0
    /\ pc' = IF transient THEN "loop" ELSE "steady"
    /\ UNCHANGED << config, extra, inventory, dq, dt, nb_iterations, u, u_n, T, T_n, density,
                    density_previous_solution, retries, outcome, history >>

\* faulty variant: the time is assigned the stepsize instead of advanced by it
Iterate_AdvanceTime_Assigns ==
    /\ prog = "sim"
    /\ pc = "loop"
    /\ t < final_time
    /\ nb_iterations < MaxIter
    /\ t' = dt
    /\ pc' = "refresh"
    /\ trace' = << "advance" >>
    /\ writes' = << >>
    /\ main_converged' = FALSE
    /\ density_solved' = {}
    /\ UNCHANGED << config, extra, inventory, dq, dt, nb_iterations, u, u_n, T, T_n, density,
                    density_previous_solution, retries, outcome, last_commit >>

\* faulty variant: the step counter is incremented when the step starts
Iterate_AdvanceTime_CountsFirst ==
    /\ prog = "sim"
    /\ pc = "loop"
    /\ t < final_time
    /\ nb_iterations < MaxIter
    /\ t' = t + dt
    /\ nb_iterations' = nb_iterations + 1
    /\ pc' = "refresh"
    /\ trace' = << "advance" >>
    /\ writes' = << >>
    /\ main_converged' = FALSE
    /\ density_solved' = {}
    /\ UNCHANGED << config, extra, inventory, dq, dt, u, u_n, T, T_n, density,
                    density_previous_solution, retries, outcome, last_commit >>

\* while self.t < final_time: iterate() -- the first statement of iterate
Iterate_AdvanceTime ==
    /\ prog = "sim"
    /\ pc = "loop"
    /\ t < final_time
    /\ nb_iterations < MaxIter
    /\ t' = t + dt
    /\ pc' = "refresh"
    /\ trace' = << "advance" >>
    /\ writes' = << >>
    /\ main_converged' = FALSE
    /\ density_solved' = {}
    /\ UNCHANGED << config, extra, inventory, dq, dt, nb_iterations, u, u_n, T, T_n, density,
                    density_previous_solution, retries, outcome, last_commit >>

\* faulty variant: the previous concentration is updated together with the previous
\* temperature, at the start of the step
Iterate_UpdateTemperature_CommitsU ==
    /\ prog = "sim"
    /\ pc = "refresh"
    /\ u_n' = u
    /\ IF T_type = "expression"
       THEN /\ T_n' = T
            /\ T' = t
            /\ writes' = (writes \o << Write("T_n", 0, "refresh") >>)
                             \o << Write("u_n", 0, "refresh") >>
       ELSE /\ UNCHANGED << T, T_n >>
            /\ writes' = Append(writes, Write("u_n", 0, "refresh"))
    /\ trace' = Append(trace, "refresh")
    /\ pc' = IF T_type = "solve_transient" THEN "heat" ELSE "main"
    /\ UNCHANGED << config, extra, inventory, dq, t, dt, nb_iterations, u, density,
                    density_previous_solution, retries, outcome,
                    main_converged, density_solved, last_commit >>

\* faulty variant: the transient heat solve is not performed before the main solve
Iterate_UpdateTemperature_SkipsHeat ==
    /\ prog = "sim"
    /\ pc = "refresh"
    /\ IF T_type = "expression"
       THEN /\ T_n' = T
            /\ T' = t
            /\ writes' = Append(writes, Write("T_n", 0, "refresh"))
       ELSE UNCHANGED << T, T_n, writes >>
    /\ trace' = Append(trace, "refresh")
    /\ pc' = "main"
    /\ UNCHANGED << config, extra, inventory, dq, t, dt, nb_iterations, u, u_n, density,
                    density_previous_solution, retries, outcome,
                    main_converged, density_solved, last_commit >>

\* iterate: update_expressions and the temperature refresh
Iterate_UpdateTemperature ==
    /\ prog = "sim"
    /\ pc = "refresh"
    /\ IF T_type = "expression"
       THEN /\ T_n' = T
            /\ T' = t
            /\ writes' = Append(writes, Write("T_n", 0, "refresh"))
       ELSE UNCHANGED << T, T_n, writes >>
    /\ trace' = Append(trace, "refresh")
    /\ pc' = IF T_type = "solve_transient" THEN "heat" ELSE "main"
    /\ UNCHANGED << config, extra, inventory, dq, t, dt, nb_iterations, u, u_n, density,
                    density_previous_solution, retries, outcome,
                    main_converged, density_solved, last_commit >>

\* iterate: the transient heat solve converges, T_n.assign(T)
Iterate_SolveHeat ==
    /\ prog = "sim"
    /\ pc = "heat"
    /\ T' = t
    /\ T_n' = t
    /\ writes' = Append(writes, Write("T_n", 0, "heat"))
    /\ trace' = Append(trace, "heat")
    /\ pc' = "main"
    /\ UNCHANGED << config, extra, inventory, dq, t, dt, nb_iterations, u, u_n, density,
                    density_previous_solution, retries, outcome,
                    main_converged, density_solved, last_commit >>

\* iterate: the transient heat solve does not converge (solver.solve raises)
Iterate_SolveHeatFailed ==
    /\ prog = "sim"
    /\ pc = "heat"
    /\ T' = Diverged
    /\ trace' = Append(trace, "heat")
    /\ pc' = "error"
    /\ err' = "RuntimeError"
    /\ UNCHANGED << config, extra, inventory, dq, t, dt, nb_iterations, u, u_n, T_n, density,
                    density_previous_solution, retries, converged, post_runs,
                    final_write, returned, writes, main_converged,
                    density_solved, last_commit >>

\* iterate: FESTIM.solve_it(self.F, self.u, self.bcs, self.t, self.dt, ...)
Iterate_SolveMain ==
    /\ prog = "sim"
    /\ SolveItConverged
    /\ UNCHANGED inventory

Iterate_SolveMainRetry ==
    /\ prog = "sim"
    /\ SolveItRetry

Iterate_SolveMainBoundsExceeded ==
    /\ prog = "sim"
    /\ SolveItBoundsExceeded

Iterate_SolveMainFailed ==
    /\ prog = "sim"
    /\ SolveItFailed

\* faulty variant: the previous density is updated inside the solve loop
Iterate_SolveExtrinsic_AssignsPrevious ==
    /\ prog = "sim"
    /\ pc = "ext"
    /\ LET i == NextExtrinsic IN
         /\ density' = [density EXCEPT ![i] = t]
         /\ density_previous_solution' =
                [density_previous_solution EXCEPT ![i] = t]
         /\ writes' = Append(writes,
                             Write("density_previous_solution", i, "ext"))
         /\ density_solved' = density_solved \cup {i}
         /\ pc' = IF ExtrinsicTraps \ density_solved = {i}
                  THEN "post" ELSE "ext"
    /\ trace' = Append(trace, "ext")
    /\ UNCHANGED << config, extra, inventory, dq, t, dt, nb_iterations, u, u_n, T, T_n,
                    retries, outcome, main_converged, last_commit >>

\* iterate: solve(trap.form_density == 0, trap.density[0], []) converges
Iterate_SolveExtrinsic ==
    /\ prog = "sim"
    /\ pc = "ext"
    /\ LET i == NextExtrinsic IN
         /\ density' = [density EXCEPT ![i] = t]
         /\ density_solved' = density_solved \cup {i}
         /\ pc' = IF ExtrinsicTraps \ density_solved = {i}
                  THEN "post" ELSE "ext"
    /\ trace' = Append(trace, "ext")
    /\ UNCHANGED << config, extra, inventory, dq, t, dt, nb_iterations, u, u_n, T, T_n,
                    density_previous_solution, retries, outcome, writes,
                    main_converged, last_commit >>

\* iterate: the density solve of an extrinsic trap does not converge
Iterate_SolveExtrinsicFailed ==
    /\ prog = "sim"
    /\ pc = "ext"
    /\ density' = [density EXCEPT ![NextExtrinsic] = Diverged]
    /\ trace' = Append(trace, "ext")
    /\ pc' = "error"
    /\ err' = "RuntimeError"
    /\ UNCHANGED << config, extra, inventory, dq, t, dt, nb_iterations, u, u_n, T, T_n,
                    density_previous_solution, retries, converged, post_runs,
                    final_write, returned, writes, main_converged,
                    density_solved, last_commit >>

\* the mode a snapshot is written in
WriteMode(append) == IF append THEN "append" ELSE "overwrite"

\* faulty variant: the step counter already counts the step being processed
Sim_ComputeDerivedQuantities_Counted ==
    computed_at' =
        IF export_derived_quantities
           /\ (nb_iterations + 1) % nb_iterations_between_compute = 0
        THEN Append(computed_at, post_runs + 1)
        ELSE computed_at

\* run_post_processing, the DerivedQuantities export: export.compute(t) when
\* the step counter is a multiple of nb_iterations_between_compute
Sim_ComputeDerivedQuantities ==
    computed_at' =
        IF export_derived_quantities
           /\ nb_iterations % nb_iterations_between_compute = 0
        THEN Append(computed_at, post_runs + 1)
        ELSE computed_at

\* faulty variant: the export is never switched to append mode
Sim_ExportXDMF_NeverAppends ==
    /\ \E is_export_xdmf \in BOOLEAN :
          xdmf_writes' = IF export_xdmf /\ is_export_xdmf
                         THEN Append(xdmf_writes, WriteMode(xdmf_append))
                         ELSE xdmf_writes
    /\ xdmf_append' = xdmf_append

\* run_post_processing, the XDMFExport: when is_export_xdmf says so, the
\* snapshot is written and the export switched to append mode
Sim_ExportXDMF ==
    \E is_export_xdmf \in BOOLEAN :
        IF export_xdmf /\ is_export_xdmf
        THEN /\ xdmf_writes' = Append(xdmf_writes, WriteMode(xdmf_append))
             /\ xdmf_append' = TRUE
        ELSE UNCHANGED << xdmf_writes, xdmf_append >>

\* iterate: self.run_post_processing()
Iterate_PostProcessing ==
    /\ prog = "sim"
    /\ pc = "post"
    /\ post_runs' = post_runs + 1
    /\ Sim_ComputeDerivedQuantities
    /\ Sim_ExportXDMF
    /\ trace' = Append(trace, "post")
    /\ pc' = "commit"
    /\ UNCHANGED << config, problem, post, dt_object,
                    derived_quantities_global, step_times, steady_solves,
                    solved_with, inventory, dq, t, dt, nb_iterations, u, u_n, T, T_n, density,
                    density_previous_solution, retries, converged, err,
                    final_write, returned, writes, main_converged,
                    density_solved, last_commit >>

\* the previous densities after the commit block: every extrinsic trap
\* takes its current density
CommittedDensities ==
    [i \in TrapIds |-> IF traps[i] THEN density[i]
                       ELSE density_previous_solution[i]]


RECURSIVE ExtrinsicWrites(_)
ExtrinsicWrites(k) ==
    IF k = 0 THEN << >>
    ELSE IF traps[k]
         THEN Append(ExtrinsicWrites(k - 1),
                     Write("density_previous_solution", k, "commit"))
         ELSE ExtrinsicWrites(k - 1)

\* iterate: "Update previous solutions" and the step counter
Iterate_Commit ==
    /\ prog = "sim"
    /\ pc = "commit"
    /\ u_n' = u
    /\ density_previous_solution' = CommittedDensities
    /\ nb_iterations' = nb_iterations + 1
    /\ writes' = (writes \o << Write("u_n", 0, "commit") >>)
                     \o ExtrinsicWrites(Len(traps))
    /\ last_commit' = Committed(t, nb_iterations + 1, u, T_n,
                                CommittedDensities)
    /\ trace' = Append(trace, "commit")
    /\ pc' = "clip"
    /\ UNCHANGED << config, extra, inventory, dq, t, dt, u, T, T_n, density, retries, outcome,
                    main_converged, density_solved >>

\* faulty variant: the clipped stepsize is measured from the time after the next step
Iterate_ClipStepsize_FromNext ==
    /\ prog = "sim"
    /\ pc = "clip"
    /\ dt' = IF t + dt > final_time THEN final_time - (t + dt) ELSE dt
    /\ trace' = Append(trace, "clip")
    /\ pc' = "loop"
    /\ UNCHANGED << config, extra, inventory, dq, t, nb_iterations, u, u_n, T, T_n, density,
                    density_previous_solution, retries, outcome, writes,
                    main_converged, density_solved, last_commit >>

\* iterate: "avoid t > final_time"
Iterate_ClipStepsize ==
    /\ prog = "sim"
    /\ pc = "clip"
    /\ dt' = IF t + dt > final_time THEN final_time - t ELSE dt
    /\ trace' = Append(trace, "clip")
    /\ pc' = "loop"
    /\ UNCHANGED << config, extra, inventory, dq, t, nb_iterations, u, u_n, T, T_n, density,
                    density_previous_solution, retries, outcome, writes,
                    main_converged, density_solved, last_commit >>

\* run: the while loop exits; final export.write() and make_output
Run_TransientEnd ==
    /\ prog = "sim"
    /\ pc = "loop"
    /\ ~(t < final_time)
    /\ final_write' = TRUE
    /\ returned' = TRUE
    /\ pc' = "done"
    /\ UNCHANGED << config, extra, inventory, dq, t, dt, nb_iterations, u, u_n, T, T_n, density,
                    density_previous_solution, retries, converged, err,
                    post_runs, history >>

\* run: FESTIM.solve_once in steady state, converged or not
Run_SolveSteady ==
    /\ prog = "sim"
    /\ pc = "steady"
    /\ \E c \in BOOLEAN :
         /\ converged' = c
         /\ u' = IF c THEN t ELSE Diverged
    /\ pc' = "steady_post"
    /\ steady_solves' = steady_solves + 1
    /\ UNCHANGED << config, problem, post, solved_with, exports_state, dt_object,
                    derived_quantities_global, step_times, inventory, dq, t, dt, nb_iterations, u_n, T, T_n, density,
                    density_previous_solution, retries, err, post_runs,
                    final_write, returned, history >>

\* run: post processing of the steady-state solution
Run_SteadyPostProcessing ==
    /\ prog = "sim"
    /\ pc = "steady_post"
    /\ post_runs' = post_runs + 1
    /\ Sim_ComputeDerivedQuantities
    /\ Sim_ExportXDMF
    /\ pc' = "steady_end"
    /\ UNCHANGED << config, problem, post, dt_object,
                    derived_quantities_global, step_times, steady_solves,
                    solved_with, inventory, dq, t, dt, nb_iterations, u, u_n, T, T_n, density,
                    density_previous_solution, retries, converged, err,
                    final_write, returned, history >>

\* run: converged steady state: final message, export.write(), make_output
Run_SteadyEnd ==
    /\ prog = "sim"
    /\ pc = "steady_end"
    /\ converged
    /\ final_write' = TRUE
    /\ returned' = TRUE
    /\ pc' = "done"
    /\ UNCHANGED << config, extra, inventory, dq, t, dt, nb_iterations, u, u_n, T, T_n, density,
                    density_previous_solution, retries, converged, err,
                    post_runs, history >>

\* faulty variant: the divergence is only reported and run carries on
Run_SteadyDiverged_Returns ==
    /\ prog = "sim"
    /\ pc = "steady_end"
    /\ ~converged
    /\ final_write' = TRUE
    /\ returned' = TRUE
    /\ pc' = "done"
    /\ UNCHANGED << config, extra, inventory, dq, t, dt, nb_iterations, u, u_n, T, T_n, density,
                    density_previous_solution, retries, converged, err,
                    post_runs, history >>

\* run: diverged steady state: raise ValueError("The solver diverged ...")
Run_SteadyDiverged ==
    /\ prog = "sim"
    /\ pc = "steady_end"
    /\ ~converged
    /\ err' = "ValueError"
    /\ pc' = "error"
    /\ UNCHANGED << config, extra, inventory, dq, t, dt, nb_iterations, u, u_n, T, T_n, density,
                    density_previous_solution, retries, converged, post_runs,
                    final_write, returned, history >>

NextSim ==
    \/ Run_Start
    \/ Iterate_AdvanceTime
    \/ Iterate_UpdateTemperature
    \/ Iterate_SolveHeat
    \/ Iterate_SolveHeatFailed
    \/ Iterate_SolveMain
    \/ Iterate_SolveMainRetry
    \/ Iterate_SolveMainBoundsExceeded
    \/ Iterate_SolveMainFailed
    \/ Iterate_SolveExtrinsic
    \/ Iterate_SolveExtrinsicFailed
    \/ Iterate_PostProcessing
    \/ Iterate_Commit
    \/ Iterate_ClipStepsize
    \/ Run_TransientEnd
    \/ Run_SolveSteady
    \/ Run_SteadyPostProcessing
    \/ Run_SteadyEnd
    \/ Run_SteadyDiverged

\* ------------------------------------- Cas_test_solubility: the script run
\* The script calls the FESTIM helpers with the signatures of the FESTIM
\* version it was written for; each call is modelled by what the script
\* passes and uses.  This model runs it without a "derived_quantities"
\* export; DQSpec below covers the derived quantities.

\* one term of a variational form: its kind, the equation (test function)
\* it is added to, the species it is a term of, and the subdomain or surface
\* it is integrated on (0: the whole domain)
Term(kind, eq, of, on) == [kind |-> kind, eq |-> eq, of |-> of, on |-> on]

\* formulation: the terms of the mobile equation for the materials
RECURSIVE MaterialTerms(_, _, _)
MaterialTerms(mats, tr, k) ==
    IF k > Len(mats) THEN << >>
    ELSE (IF tr THEN << Term("time_derivative", 0, 0, mats[k]) >> ELSE << >>)
            \o << Term("diffusion", 0, 0, mats[k]) >>
            \o MaterialTerms(mats, tr, k + 1)

\* formulation: trapping and detrapping of trap i in each of its materials
RECURSIVE TrappingTerms(_, _)
TrappingTerms(i, mats) ==
    IF mats = {} THEN << >>
    ELSE LET m == CHOOSE x \in mats : \A y \in mats : x <= y
         IN << Term("trapping", i, i, m), Term("detrapping", i, i, m) >>
                \o TrappingTerms(i, mats \ {m})

\* formulation: the terms added for the traps, from trap i on; the last one,
\* ((solutions[i] - previous_solutions[i]) / dt) * testfunctions[0], is
\* added in both modes
RECURSIVE TrapTerms(_, _, _)
TrapTerms(tmats, tr, i) ==
    IF i > Len(tmats) THEN << >>
    ELSE (IF tr THEN << Term("time_derivative", i, i, 0) >> ELSE << >>)
            \o TrappingTerms(i, tmats[i])
            \o << Term("time_derivative", 0, i, 0) >>
            \o TrapTerms(tmats, tr, i + 1)

\* formulation(parameters, ..., transient) of the script
formulation_F(mats, tmats, tr) ==
    MaterialTerms(mats, tr, 1) \o TrapTerms(tmats, tr, 1)

\* how many times the time derivative of species of enters equation eq
Coefficient(terms, eq, of) ==
    Cardinality({k \in 1..Len(terms) :
                    /\ terms[k].kind = "time_derivative"
                    /\ terms[k].eq = eq
                    /\ terms[k].of = of})

\* what the traps gain over the step, weighted as in the mobile equation
RECURSIVE Accumulated(_, _, _)
Accumulated(terms, c, i) ==
    IF i > Len(c) THEN 0
    ELSE Coefficient(terms, 0, i) * (c[i] - previous_trap_inventory[i])
            + Accumulated(terms, c, i + 1)

\* S_0*exp(-E_S/k_B/T): the solubility grows with the temperature; a
\* temperature field is the tick of its time level
Solubility(temp) == 2 ^ temp

\* S(T_n)*previous_solutions[0], integrated: the previous solute as the
\* mobile term of the residual sees it. previous_solutions[0] was stored
\* at the temperature of the last commit and is weighted here with the
\* solubility at the present value of T_n
PreviousSolute ==
    (previous_mobile_inventory * Solubility(T_n))
        \div Solubility(last_commit.T_n)

\* the solution of F = 0 with no boundary flux, integrated over the domain
\* (the residual tested with the constant function 1, for which the
\* diffusion term vanishes): each trap holds what its own equation gives
\* it, the mobile equation fixes the solute S(T)*solutions[0]
SolveResidual ==
    \E c \in [TrapIds -> 0..MaxInventory] :
        /\ \A i \in TrapIds : c[i] <= trap_density[i]
        /\ trap_inventory' = c
        /\ mobile_inventory' =
              PreviousSolute - Accumulated(formulation.terms, c, 1)
        /\ UNCHANGED << previous_mobile_inventory, previous_trap_inventory >>

\* run: mode selection, set-up, t = 0
\* header_derived_quantities(parameters): the header row, "t(s)" first
Header == << "t(s)" >>

Cas_Start ==
    /\ prog = "cas"
    /\ pc = "run"
    /\ t' = 0
    /\ pc' = "formulation"
    /\ UNCHANGED << config, extra, inventory, dq, dt, nb_iterations, u, u_n,
                    T, T_n, density, density_previous_solution, retries,
                    outcome, history >>

\* run: F, expressions_F = formulation(..., dt, dx, T, T_n, transient);
\* in steady state dt = 0, and a quotient by it either raises in the form
\* library or leaves a term that is not defined
Cas_Formulation ==
    /\ prog = "cas"
    /\ pc = "formulation"
    /\ LET terms == formulation_F(subdomains, trap_materials, transient)
           by_zero == /\ ~transient
                      /\ \E k \in 1..Len(terms) :
                            terms[k].kind = "time_derivative"
       IN \E raises \in BOOLEAN :
            IF by_zero /\ raises
            THEN /\ err' = "ZeroDivisionError"
                 /\ pc' = "error"
                 /\ formulation' = formulation
                 /\ derived_quantities_global' = derived_quantities_global
            ELSE /\ formulation' = [defined |-> TRUE, terms |-> terms]
                 /\ pc' = IF transient THEN "loop" ELSE "steady"
                 /\ err' = err
                 /\ derived_quantities_global' =
                       IF export_derived_quantities THEN << Header >>
                       ELSE << >>
    /\ UNCHANGED << config, dq, post, solved_with, exports_state, dt_object, step_times,
                    steady_solves, inventory, t, dt, nb_iterations, u, u_n, T,
                    T_n, density, density_previous_solution, retries,
                    converged, post_runs, final_write, returned, history,
                    bc_parameters, model, boundary_conditions, bcs, species,
                    subdomains, volume_subdomains, sources, times >>

\* run: while t < Time: t += float(dt)
Cas_AdvanceTime ==
    /\ prog = "cas"
    /\ pc = "loop"
    /\ t < final_time
    /\ t' = t + dt
    /\ pc' = "refresh"
    /\ trace' = << "advance" >>
    /\ writes' = << >>
    /\ main_converged' = FALSE
    /\ density_solved' = {}
    /\ UNCHANGED << config, extra, inventory, dq, dt, nb_iterations, u, u_n, T, T_n, density,
                    density_previous_solution, retries, outcome, last_commit >>

\* run: update_expressions; T.assign(interpolate(T_expr, W)) for an
\* expression temperature
Cas_UpdateTemperature ==
    /\ prog = "cas"
    /\ pc = "refresh"
    /\ T' = IF T_type = "expression" THEN t ELSE T
    /\ trace' = Append(trace, "refresh")
    /\ pc' = IF T_type = "solve_transient" THEN "heat" ELSE "main"
    /\ UNCHANGED << config, extra, inventory, dq, t, dt, nb_iterations, u, u_n, T_n, density,
                    density_previous_solution, retries, outcome, writes,
                    main_converged, density_solved, last_commit >>

\* run: the transient heat solve converges, T_n.assign(T)
Cas_SolveHeat ==
    /\ prog = "cas"
    /\ pc = "heat"
    /\ T' = t
    /\ T_n' = t
    /\ writes' = Append(writes, Write("T_n", 0, "heat"))
    /\ trace' = Append(trace, "heat")
    /\ pc' = "main"
    /\ UNCHANGED << config, extra, inventory, dq, t, dt, nb_iterations, u, u_n, density,
                    density_previous_solution, retries, outcome,
                    main_converged, density_solved, last_commit >>

\* run: the transient heat solve does not converge
Cas_SolveHeatFailed ==
    /\ prog = "cas"
    /\ pc = "heat"
    /\ T' = Diverged
    /\ trace' = Append(trace, "heat")
    /\ pc' = "error"
    /\ err' = "RuntimeError"
    /\ UNCHANGED << config, extra, inventory, dq, t, dt, nb_iterations, u, u_n, T_n, density,
                    density_previous_solution, retries, converged, post_runs,
                    final_write, returned, writes, main_converged,
                    density_solved, last_commit >>

\* run: FESTIM.solving.solve_it(F, u, J, bcs, t, dt, solving_parameters)
Cas_SolveMain ==
    /\ prog = "cas"
    /\ SolveItConverged
    /\ SolveResidual

Cas_SolveMainRetry ==
    /\ prog = "cas"
    /\ SolveItRetry

Cas_SolveMainBoundsExceeded ==
    /\ prog = "cas"
    /\ SolveItBoundsExceeded

Cas_SolveMainFailed ==
    /\ prog = "cas"
    /\ SolveItFailed

\* run: solve(extrinsic_formulations[j] == 0, extrinsic_traps[j], [])
Cas_SolveExtrinsic ==
    /\ prog = "cas"
    /\ pc = "ext"
    /\ LET i == NextExtrinsic IN
         /\ density' = [density EXCEPT ![i] = t]
         /\ density_solved' = density_solved \cup {i}
         /\ pc' = IF ExtrinsicTraps \ density_solved = {i}
                  THEN "post" ELSE "ext"
    /\ trace' = Append(trace, "ext")
    /\ UNCHANGED << config, extra, inventory, dq, t, dt, nb_iterations, u, u_n, T, T_n,
                    density_previous_solution, retries, outcome, writes,
                    main_converged, last_commit >>

\* run: an extrinsic density solve does not converge
Cas_SolveExtrinsicFailed ==
    /\ prog = "cas"
    /\ pc = "ext"
    /\ density' = [density EXCEPT ![NextExtrinsic] = Diverged]
    /\ trace' = Append(trace, "ext")
    /\ pc' = "error"
    /\ err' = "RuntimeError"
    /\ UNCHANGED << config, extra, inventory, dq, t, dt, nb_iterations, u, u_n, T, T_n,
                    density_previous_solution, retries, converged, post_runs,
                    final_write, returned, writes, main_converged,
                    density_solved, last_commit >>

\* faulty variant: the history is rebuilt from the row of this step
Cas_PostProcessing_Overwrites ==
    /\ prog = "cas"
    /\ pc = "post"
    /\ post_runs' = post_runs + 1
    /\ xdmf_writes' =
          IF export_xdmf
          THEN Append(xdmf_writes, WriteMode(xdmf_append))
          ELSE xdmf_writes
    /\ xdmf_append' = TRUE
    /\ derived_quantities_global' =
          IF export_derived_quantities
          THEN << Header, << t >> >>
          ELSE derived_quantities_global
    /\ trace' = Append(trace, "post")
    /\ pc' = "commit"
    /\ UNCHANGED << config, problem, post, solved_with, computed_at, dt_object, step_times,
                    steady_solves, inventory, dq, t, dt, nb_iterations, u, u_n, T, T_n, density,
                    density_previous_solution, retries, converged, err,
                    final_write, returned, writes, main_converged,
                    density_solved, last_commit >>

\* run: FESTIM.post_processing.run_post_processing(...)
Cas_PostProcessing ==
    /\ prog = "cas"
    /\ pc = "post"
    /\ post_runs' = post_runs + 1
    /\ xdmf_writes' =
          IF export_xdmf
          THEN Append(xdmf_writes, WriteMode(xdmf_append))
          ELSE xdmf_writes
    /\ xdmf_append' = TRUE
    /\ derived_quantities_global' =
          IF export_derived_quantities
          THEN Append(derived_quantities_global, << t >>)
          ELSE derived_quantities_global
    /\ trace' = Append(trace, "post")
    /\ pc' = "commit"
    /\ UNCHANGED << config, problem, post, solved_with, computed_at, dt_object, step_times,
                    steady_solves, inventory, dq, t, dt, nb_iterations, u, u_n, T, T_n, density,
                    density_previous_solution, retries, converged, err,
                    final_write, returned, writes, main_converged,
                    density_solved, last_commit >>

\* run: "Update previous solutions": u_n, T_n and the extrinsic densities
Cas_Commit ==
    /\ prog = "cas"
    /\ pc = "commit"
    /\ u_n' = u
    /\ T_n' = T
    /\ density_previous_solution' = CommittedDensities
    /\ writes' = (writes \o << Write("u_n", 0, "commit"),
                               Write("T_n", 0, "commit") >>)
                     \o ExtrinsicWrites(Len(traps))
    /\ last_commit' = Committed(t, nb_iterations, u, T, CommittedDensities)
    /\ trace' = Append(trace, "commit")
    /\ pc' = "loop"
    /\ step_times' = Append(step_times, t)
    /\ previous_mobile_inventory' = mobile_inventory
    /\ previous_trap_inventory' = trap_inventory
    /\ UNCHANGED << config, problem, post, solved_with, exports_state, dt_object,
                    derived_quantities_global, steady_solves, dq, t, dt, nb_iterations, u, T, density,
                    retries, outcome, main_converged, density_solved,
                    mobile_inventory, trap_inventory >>

\* run: the while loop exits; the output dict is built and returned
Cas_TransientEnd ==
    /\ prog = "cas"
    /\ pc = "loop"
    /\ ~(t < final_time)
    /\ returned' = TRUE
    /\ pc' = "done"
    /\ UNCHANGED << config, extra, inventory, dq, t, dt, nb_iterations, u, u_n, T, T_n, density,
                    density_previous_solution, retries, converged, err,
                    post_runs, final_write, history >>

\* run: FESTIM.solving.solve_once in steady state (its result is not read)
Cas_SolveSteady ==
    /\ prog = "cas"
    /\ pc = "steady"
    /\ \E c \in BOOLEAN : u' = IF c THEN t ELSE Diverged
    /\ pc' = "steady_post"
    /\ steady_solves' = steady_solves + 1
    /\ UNCHANGED << config, problem, post, solved_with, exports_state, dt_object,
                    derived_quantities_global, step_times, inventory, dq, t, dt, nb_iterations, u_n, T, T_n, density,
                    density_previous_solution, retries, outcome, history >>

\* run: steady-state post processing, then the output dict is returned
Cas_SteadyEnd ==
    /\ prog = "cas"
    /\ pc = "steady_post"
    /\ post_runs' = post_runs + 1
    /\ xdmf_writes' =
          IF export_xdmf
          THEN Append(xdmf_writes, WriteMode(xdmf_append))
          ELSE xdmf_writes
    /\ derived_quantities_global' =
          IF export_derived_quantities
          THEN Append(derived_quantities_global, << t >>)
          ELSE derived_quantities_global
    /\ returned' = TRUE
    /\ pc' = "done"
    /\ UNCHANGED << config, problem, post, solved_with, computed_at, xdmf_append, dt_object, step_times,
                    steady_solves, inventory, dq, t, dt, nb_iterations, u, u_n, T, T_n, density,
                    density_previous_solution, retries, converged, err,
                    final_write, history >>

NextCas ==
    \/ Cas_Start
    \/ Cas_Formulation
    \/ Cas_AdvanceTime
    \/ Cas_UpdateTemperature
    \/ Cas_SolveHeat
    \/ Cas_SolveHeatFailed
    \/ Cas_SolveMain
    \/ Cas_SolveMainRetry
    \/ Cas_SolveMainBoundsExceeded
    \/ Cas_SolveMainFailed
    \/ Cas_SolveExtrinsic
    \/ Cas_SolveExtrinsicFailed
    \/ Cas_PostProcessing
    \/ Cas_Commit
    \/ Cas_TransientEnd
    \/ Cas_SolveSteady
    \/ Cas_SteadyEnd

\* ------------------------------------------- derived quantities (script)
\* the quantity keys the header and the evaluation know
quantity_types ==
    {"surface_flux", "average_volume", "minimum_volume", "maximum_volume",
     "total_volume", "total_surface"}

\* the field names accepted as strings
field_types == {"solute", "retention", "T"}

\* str(n) for the integers a field can hold
DecimalStrings == [n \in 0..(MaxTraps + 1) |->
                     CASE n = 0 -> "0" [] n = 1 -> "1" [] n = 2 -> "2"
                       [] n = 3 -> "3" [] n = 4 -> "4" [] OTHER -> "5"]

StrOfInt(n) == IF n < 0 THEN "-1" ELSE DecimalStrings[n]

\* str.isdigit() on the strings of the model
IsDigit(s) == \E n \in DOMAIN DecimalStrings : DecimalStrings[n] = s

\* int(s) for a digit string
IntOfStr(s) == CHOOSE n \in DOMAIN DecimalStrings : DecimalStrings[n] = s

\* the values f["field"] takes in the model: an int, a str, another type
\* (a float), or no "field" key at all
IntField(n) == [kind |-> "int", num |-> n, str |-> ""]
StrField(x) == [kind |-> "str", num |-> 0, str |-> x]
FieldValues ==
    {IntField(n) : n \in (0 - 1)..(MaxTraps + 1)}
    \cup {StrField(x) : x \in field_types \cup {"mobile", "-1"}}
    \cup {StrField(DecimalStrings[n]) : n \in DOMAIN DecimalStrings}
    \cup {[kind |-> "float", num |-> 0, str |-> "1.5"]}
    \cup {[kind |-> "missing", num |-> 0, str |-> ""]}

Entries == [field : FieldValues, surfaces : BOOLEAN, volumes : BOOLEAN]

\* str(f["field"])
StrOfField(f) == IF f.kind = "int" THEN StrOfInt(f.num) ELSE f.str

\* faulty variant: a digit string is accepted whatever trap it names
check_keys_AnyDigits(quantity, f, ntraps) ==
    IF quantity \notin quantity_types \cup {"file", "folder"}
    THEN "ValueError"
    ELSE IF quantity \in {"file", "folder"} THEN "ok"
    ELSE IF f.field.kind = "missing" THEN "KeyError"
    ELSE IF f.field.kind = "int"
              /\ (f.field.num > ntraps \/ f.field.num < 0)
         THEN "ValueError"
    ELSE IF f.field.kind = "str" /\ f.field.str \notin field_types
              /\ ~IsDigit(f.field.str)
         THEN "ValueError"
    ELSE IF ~f.surfaces /\ ~f.volumes THEN "KeyError"
    ELSE "ok"

\* check_keys_derived_quantities on a dict with one quantity key holding one
\* entry: "ok" or the exception raised
check_keys_derived_quantities(quantity, f, ntraps) ==
    IF quantity \notin quantity_types \cup {"file", "folder"}
    THEN "ValueError"
    ELSE IF quantity \in {"file", "folder"} THEN "ok"
    ELSE IF f.field.kind = "missing" THEN "KeyError"
    ELSE IF f.field.kind = "int"
              /\ (f.field.num > ntraps \/ f.field.num < 0)
         THEN "ValueError"
    ELSE IF f.field.kind = "str" /\ f.field.str \notin field_types
              /\ IsDigit(f.field.str)
              /\ (IntOfStr(f.field.str) > ntraps \/ IntOfStr(f.field.str) < 0)
         THEN "ValueError"
    ELSE IF f.field.kind = "str" /\ f.field.str \notin field_types
              /\ ~IsDigit(f.field.str)
         THEN "ValueError"
    ELSE IF ~f.surfaces /\ ~f.volumes THEN "KeyError"
    ELSE "ok"

\* quantities whose header loop reads entry["surfaces"]; the others read
\* entry["volumes"]
SurfaceQuantities == {"surface_flux", "total_surface"}

\* header_derived_quantities: the check, then one column per surface/volume
header_derived_quantities(quantity, f, ntraps) ==
    LET c == check_keys_derived_quantities(quantity, f, ntraps) IN
    IF c # "ok" THEN c
    ELSE IF quantity \in SurfaceQuantities /\ ~f.surfaces THEN "KeyError"
    ELSE IF quantity \in quantity_types \ SurfaceQuantities /\ ~f.volumes
         THEN "KeyError"
    ELSE "ok"

\* keys of field_to_sol for solutions = [solute, trap 1..n, retention, T]
field_to_sol_keys(ntraps) ==
    {"solute", "retention", "T"} \cup {StrOfInt(i) : i \in 1..ntraps}

\* keys of field_to_prop
field_to_prop_keys == {"solute", "T"}

\* derived_quantities: "ok" or the exception raised by a field lookup
derived_quantities(quantity, f, ntraps) ==
    LET name == StrOfField(f.field) IN
    CASE quantity = "surface_flux" ->
           IF name \in field_to_sol_keys(ntraps) /\ name \in field_to_prop_keys
           THEN "ok" ELSE "KeyError"
      [] quantity \in {"minimum_volume", "maximum_volume"} ->
           IF name = "retention" \/ name \in field_to_sol_keys(ntraps)
           THEN "ok" ELSE "KeyError"
      [] quantity \in {"average_volume", "total_volume", "total_surface"} ->
           IF name \in field_to_sol_keys(ntraps) THEN "ok" ELSE "KeyError"
      [] OTHER -> "ok"

\* the fixed state of the time loop while the derived quantities are studied
InitDQ ==
    /\ dq_pc = "header"
    /\ derived_quantities_key \in
          quantity_types \cup {"file", "folder", "total_flux"}
    /\ derived_quantities_entry \in Entries
    /\ dq_err = ""
    /\ dq_steps = 0
    /\ prog = "cas"
    /\ transient = TRUE
    /\ final_time = MaxFinalTime
    /\ adaptive_stepsize = [on |-> FALSE, t_stop |-> NoStop,
                            stepsize_stop_max |-> 0]
    /\ T_type = "expression"
    /\ traps \in TrapLists
    /\ dt = 1
    /\ pc = "run"
    /\ t = 0
    /\ nb_iterations = 0
    /\ u = 0 /\ u_n = 0 /\ T = 0 /\ T_n = 0
    /\ density = [i \in TrapIds |-> 0]
    /\ density_previous_solution = [i \in TrapIds |-> 0]
    /\ retries = 0
    /\ converged = FALSE
    /\ err = ""
    /\ post_runs = 0
    /\ final_write = FALSE
    /\ returned = FALSE
    /\ trace = << >>
    /\ writes = << >>
    /\ main_converged = FALSE
    /\ density_solved = {}
    /\ last_commit = Committed(0, 0, 0, 0, [i \in TrapIds |-> 0])
    /\ ExtraIdle

\* run (script): derived_quantities_global = [header_derived_quantities(...)]
\* before the time loop
DQ_Header ==
    /\ dq_pc = "header"
    /\ LET r == header_derived_quantities(derived_quantities_key,
                                          derived_quantities_entry, Len(traps))
       IN /\ dq_pc' = IF r = "ok" THEN "stepping" ELSE "failed_setup"
          /\ dq_err' = IF r = "ok" THEN "" ELSE r
    /\ UNCHANGED << config, extra, inventory, derived_quantities_key, derived_quantities_entry,
                    dq_steps, t, dt, nb_iterations, u, u_n, T, T_n, density,
                    density_previous_solution, retries, pc, outcome, history >>

\* run_post_processing of one time step: derived_quantities(...) is computed
\* and its row appended
DQ_Evaluate ==
    /\ dq_pc = "stepping"
    /\ dq_steps < final_time
    /\ LET r == derived_quantities(derived_quantities_key,
                                   derived_quantities_entry, Len(traps))
       IN /\ dq_pc' = IF r = "ok" THEN "stepping" ELSE "failed_run"
          /\ dq_err' = IF r = "ok" THEN "" ELSE r
          /\ dq_steps' = IF r = "ok" THEN dq_steps + 1 ELSE dq_steps
    /\ UNCHANGED << config, extra, inventory, derived_quantities_key, derived_quantities_entry,
                    t, dt, nb_iterations, u, u_n, T, T_n, density,
                    density_previous_solution, retries, pc, outcome, history >>

NextDQ ==
    \/ DQ_Header
    \/ DQ_Evaluate

DQSpec == InitDQ /\ [][NextDQ]_vars

\* ---------------------------------------------------------- model set-up
\* bounds of the declared problem
MaxBCs == 2
MaxSurfaces == 2
MaxSpecies == 2

Surfaces == 1..MaxSurfaces
\* solute (0) and traps for Simulation, species indices for the
\* HydrogenTransportProblem
Components == 0..(MaxSpecies - 1)

\* FESTIM.helpers.bc_types: the Dirichlet types and the flux types
bc_types == [dc |-> {"dc"}, neumann |-> {"flux"}, robin |-> {"recomb"}]

SeqsUpTo(S, n) == UNION {[1..k -> S] : k \in 0..n}

\* the component "T" of a boundary condition of the temperature
TComponent == 0 - 1

\* one boundary-condition dict of parameters["boundary_conditions"] or, with
\* the component "T", of parameters["temperature"]["boundary_conditions"]
BCDicts ==
    [species : Components \cup {TComponent},
     surfaces : (SUBSET Surfaces) \ {{}},
     type : {"dc", "flux"}]

\* the dicts of the hydrogen list followed by those of the temperature list
DeclaredBCs ==
    {list \in SeqsUpTo(BCDicts, MaxBCs) :
        \A i, j \in 1..Len(list) :
            i < j /\ list[i].species = TComponent
                => list[j].species = TComponent}

\* the conditions with bc.component != "T"
HydrogenBCs(list) == SelectSeq(list, LAMBDA bc : bc.species # TComponent)

\* one festim.BoundaryCondition (on one surface subdomain)
BCObjects ==
    [species : Components, surfaces : {{x} : x \in Surfaces},
     class : {"DirichletBC", "FluxBC"}]

\* the time loop before it starts, for the specifications of the set-up
LoopIdle ==
    /\ dq_pc = "off"
    /\ derived_quantities_key = ""
    /\ derived_quantities_entry = NoEntry
    /\ dq_err = ""
    /\ dq_steps = 0
    /\ transient = TRUE
    /\ adaptive_stepsize = [on |-> FALSE, t_stop |-> NoStop,
                            stepsize_stop_max |-> 0]
    /\ T_type = "expression"
    /\ traps = << >>
    /\ InventoryIdle
    /\ export_derived_quantities = FALSE
    /\ ExportsIdle
    /\ t = 0
    /\ nb_iterations = 0
    /\ u = 0 /\ u_n = 0 /\ T = 0 /\ T_n = 0
    /\ density = << >>
    /\ density_previous_solution = << >>
    /\ retries = 0
    /\ converged = FALSE
    /\ err = ""
    /\ post_runs = 0
    /\ final_write = FALSE
    /\ returned = FALSE
    /\ trace = << >>
    /\ writes = << >>
    /\ main_converged = FALSE
    /\ density_solved = {}
    /\ last_commit = Committed(0, 0, 0, 0, << >>)

loop == << t, dt, nb_iterations, u, u_n, T, T_n, density,
          density_previous_solution, retries, outcome, history, inventory >>

\* Simulation.create_boundarycondition_objects: one DirichletBC per dict of
\* a Dirichlet type, one FluxBC per other dict (the elif condition "not in
\* neumann or not in robin" holds for every type)
BCObjectOf(BC) ==
    [species |-> BC.species, surfaces |-> BC.surfaces,
     class |-> IF BC.type \in bc_types.dc THEN "DirichletBC"
               ELSE IF BC.type \notin bc_types.neumann
                       \/ BC.type \notin bc_types.robin
               THEN "FluxBC" ELSE "unbound"]

Sim_CreateBoundaryConditionObjects ==
    /\ prog = "sim"
    /\ pc = "create_boundarycondition_objects"
    /\ boundary_conditions' =
           [k \in 1..Len(bc_parameters) |-> BCObjectOf(bc_parameters[k])]
    /\ pc' = "create_dirichlet_bcs"
    /\ UNCHANGED << config, dq, post, records, loop, bc_parameters, model, bcs, species,
                    subdomains, volume_subdomains, sources, formulation,
                    times >>

\* the entries one boundary condition contributes, one per surface, in
\* increasing order of the surface id
RECURSIVE PerSurface(_, _)
PerSurface(bc, surfs) ==
    IF surfs = {} THEN << >>
    ELSE LET x == CHOOSE y \in surfs : \A z \in surfs : y <= z
         IN << [species |-> bc.species, surface |-> x] >>
                \o PerSurface(bc, surfs \ {x})

\* the entries of the boundary conditions of one class, in declaration order
RECURSIVE EntriesOfClass(_, _, _)
EntriesOfClass(list, class, k) ==
    IF k > Len(list) THEN << >>
    ELSE (IF list[k].class = class
          THEN PerSurface(list[k], list[k].surfaces) ELSE << >>)
            \o EntriesOfClass(list, class, k + 1)

\* Simulation.create_dirichlet_bcs: self.bcs += bc.dirichlet_bc for every
\* Dirichlet condition, no comparison with the conditions already there
Sim_CreateDirichletBcs ==
    /\ prog = "sim"
    /\ pc = "create_dirichlet_bcs"
    /\ bcs' = EntriesOfClass(HydrogenBCs(boundary_conditions),
                             "DirichletBC", 1)
    /\ pc' = "create_H_fluxes"
    /\ UNCHANGED << config, dq, post, records, loop, bc_parameters, model, boundary_conditions,
                    species, subdomains, volume_subdomains, sources, formulation,
                    times >>

\* what a reference to a species can be: a Species object, the name of a
\* species of the model, a string that names none
References == {"Species", "name", "unknown"}

\* index of the first reference find_species_from_name does not find, one
\* past the end if there is none
FirstUnknown(refs) ==
    IF \E k \in DOMAIN refs : refs[k] = "unknown"
    THEN CHOOSE k \in DOMAIN refs :
            /\ refs[k] = "unknown"
            /\ \A j \in 1..(k - 1) : refs[j] # "unknown"
    ELSE Len(refs) + 1

\* the references after a loop that replaces the strings in order and
\* stops at the first name that is not found
Resolved(refs) ==
    [k \in DOMAIN refs |->
        IF k < FirstUnknown(refs) THEN "Species" ELSE refs[k]]

\* HydrogenTransportProblem.define_boundary_conditions: a string in
\* bc.species is replaced by the species of that name, and a form is appended
\* to bc_forms for every DirichletBC; the other conditions get no form
HTP_DefineBoundaryConditions ==
    /\ prog = "htp"
    /\ pc = "define_boundary_conditions"
    /\ bc_species' = Resolved(bc_species)
    /\ bcs' = bcs \o EntriesOfClass(
                        SubSeq(boundary_conditions, 1,
                               FirstUnknown(bc_species) - 1),
                        "DirichletBC", 1)
    /\ IF FirstUnknown(bc_species) <= Len(bc_species)
       THEN /\ err' = "UnknownSpeciesError"
            /\ pc' = "error"
       ELSE /\ err' = err
            /\ pc' = "create_formulation"
    /\ UNCHANGED << config, dq, post, records, inventory, t, dt,
                    nb_iterations, u, u_n, T, T_n, density,
                    density_previous_solution, retries, converged, post_runs,
                    final_write, returned, history, bc_parameters,
                    export_field, initialise_calls, flux_values, declared,
                    boundary_conditions, species, subdomains,
                    volume_subdomains, sources, formulation, times >>

\* the terms of the flux conditions, one per surface, all on test_solute
RECURSIVE FluxTerms(_, _)
FluxTerms(list, k) ==
    IF k > Len(list) THEN << >>
    ELSE LET e == list[k] IN
         << Term("flux", 0, e.species, e.surface) >> \o FluxTerms(list, k + 1)

\* faulty variant: a flux term for the Dirichlet conditions as well
Sim_CreateHFluxes_AllClasses ==
    /\ prog = "sim"
    /\ pc = "create_H_fluxes"
    /\ formulation' =
          [defined |-> TRUE,
           terms |-> formulation.terms
                      \o FluxTerms(EntriesOfClass(
                                      HydrogenBCs(boundary_conditions),
                                      "FluxBC", 1), 1)
                      \o FluxTerms(EntriesOfClass(
                                      HydrogenBCs(boundary_conditions),
                                      "DirichletBC", 1), 1)]
    /\ pc' = "ready"
    /\ UNCHANGED << config, dq, post, records, loop, bc_parameters, model, boundary_conditions, bcs,
                    species, subdomains, volume_subdomains, sources, times >>

\* Simulation.create_H_fluxes: F += -test_solute*bc.form*ds(surf) for every
\* surface of every condition that is not of a Dirichlet type
Sim_CreateHFluxes ==
    /\ prog = "sim"
    /\ pc = "create_H_fluxes"
    /\ formulation' =
          [defined |-> TRUE,
           terms |-> formulation.terms
                      \o FluxTerms(EntriesOfClass(
                                      HydrogenBCs(boundary_conditions),
                                      "FluxBC", 1), 1)]
    /\ pc' = "ready"
    /\ UNCHANGED << config, dq, post, records, loop, bc_parameters, model, boundary_conditions, bcs,
                    species, subdomains, volume_subdomains, sources, times >>

\* declared problems of the boundary-condition set-up
InitBC ==
    /\ LoopIdle
    /\ PostIdle
    /\ final_time = 0
    /\ dt = 1
    /\ species = MaxSpecies
    /\ subdomains = << >>
    /\ volume_subdomains = << >>
    /\ sources = << >>
    /\ formulation = [defined |-> FALSE, terms |-> << >>]
    /\ times = << >>
    /\ bcs = << >>
    /\ prog \in {"sim", "htp"}
    /\ \/ /\ prog = "sim"
          /\ pc = "create_boundarycondition_objects"
          /\ bc_parameters \in DeclaredBCs
          /\ boundary_conditions = << >>
          /\ ModelIdle
       \/ /\ prog = "htp"
          /\ pc = "define_boundary_conditions"
          /\ bc_parameters = << >>
          /\ boundary_conditions \in SeqsUpTo(BCObjects, MaxBCs)
          /\ bc_species = [k \in DOMAIN boundary_conditions |-> "Species"]
          /\ export_field = << >>
          /\ initialise_calls = 1
          /\ flux_values = NoFluxes
          /\ declared = << bc_species, export_field >>
    /\ RecordsIdle

NextBC ==
    \/ Sim_CreateBoundaryConditionObjects
    \/ Sim_CreateDirichletBcs
    \/ Sim_CreateHFluxes
    \/ HTP_DefineBoundaryConditions

BCSpec == InitBC /\ [][NextBC]_vars

\* ------------------------------------------- HydrogenTransportProblem
MaxVolumes == 2
MaxSources == 2

\* HydrogenTransportProblem.initialise up to the boundary conditions:
\* define_function_space, define_markers_and_measures (every volume
\* subdomain is appended to volume_subdomains), assign_functions_to_species,
\* t = 0, dt = settings.stepsize
HTP_Initialise ==
    /\ prog = "htp"
    /\ pc = "initialise"
    /\ volume_subdomains' = volume_subdomains \o subdomains
    /\ initialise_calls' = initialise_calls + 1
    /\ u' = 0
    /\ u_n' = 0
    /\ t' = 0
    /\ pc' = "define_boundary_conditions"
    /\ UNCHANGED << config, dq, post, records, inventory, dt, nb_iterations, T, T_n, density,
                    density_previous_solution, retries, outcome, history,
                    bc_parameters, bc_species, export_field, flux_values, declared,
                    boundary_conditions, bcs, species,
                    subdomains, sources, formulation, times >>

\* the terms of one species: diffusion and time derivative on every volume
RECURSIVE SpeciesTerms(_, _, _)
SpeciesTerms(spe, vols, k) ==
    IF k > Len(vols) THEN << >>
    ELSE << Term("diffusion", spe, spe, vols[k]),
            Term("time_derivative", spe, spe, vols[k]) >>
            \o SpeciesTerms(spe, vols, k + 1)

\* create_formulation: the loops over self.species and volume_subdomains;
\* the sources and the flux conditions are not added (commented out)
RECURSIVE create_formulation(_, _, _)
create_formulation(nspecies, vols, spe) ==
    IF spe >= nspecies THEN << >>
    ELSE SpeciesTerms(spe, vols, 1)
            \o create_formulation(nspecies, vols, spe + 1)

\* faulty variant: the formulation is reset before the sources are counted
HTP_CreateFormulation_ResetsFirst ==
    /\ prog = "htp"
    /\ pc = "create_formulation"
    /\ IF Len(sources) > 1
       THEN /\ err' = "NotImplementedError"
            /\ pc' = "error"
            /\ formulation' = [defined |-> TRUE, terms |-> << >>]
       ELSE /\ formulation' =
                  [defined |-> TRUE,
                   terms |-> create_formulation(species, volume_subdomains, 0)]
            /\ pc' = "create_solver"
            /\ err' = err
    /\ UNCHANGED << config, dq, post, records, inventory, t, dt, nb_iterations, u, u_n, T, T_n, density,
                    density_previous_solution, retries, converged, post_runs,
                    final_write, returned, history, bc_parameters, model,
                    boundary_conditions, bcs, species, subdomains,
                    volume_subdomains, sources, times >>

\* HydrogenTransportProblem.create_formulation
HTP_CreateFormulation ==
    /\ prog = "htp"
    /\ pc = "create_formulation"
    /\ IF Len(sources) > 1
       THEN /\ err' = "NotImplementedError"
            /\ pc' = "error"
            /\ formulation' = formulation
       ELSE /\ formulation' =
                  [defined |-> TRUE,
                   terms |-> create_formulation(species, volume_subdomains, 0)]
            /\ pc' = "create_solver"
            /\ err' = err
    /\ UNCHANGED << config, dq, post, records, inventory, t, dt, nb_iterations, u, u_n, T, T_n, density,
                    density_previous_solution, retries, converged, post_runs,
                    final_write, returned, history, bc_parameters, model,
                    boundary_conditions, bcs, species, subdomains,
                    volume_subdomains, sources, times >>

\* HydrogenTransportProblem.create_solver
HTP_CreateSolver ==
    /\ prog = "htp"
    /\ pc = "create_solver"
    /\ pc' = "defing_export_writers"
    /\ UNCHANGED << config, dq, post, records, loop, problem >>

\* the fields of the exports after defing_export_writers has gone through
\* the exports up to the first name that is not found
RECURSIVE ResolvedFields(_, _)
ResolvedFields(exports, k) ==
    IF k > Len(exports) THEN << >>
    ELSE << Resolved(exports[k]) >> \o
            (IF FirstUnknown(exports[k]) <= Len(exports[k])
             THEN SubSeq(exports, k + 1, Len(exports))
             ELSE ResolvedFields(exports, k + 1))

\* faulty variant: only the first entry of export.field is looked at
HTP_DefingExportWriters_FirstField ==
    /\ prog = "htp"
    /\ pc = "defing_export_writers"
    /\ export_field' =
          [e \in DOMAIN export_field |->
              [i \in DOMAIN export_field[e] |->
                  IF i = 1 /\ export_field[e][i] = "name" THEN "Species"
                  ELSE export_field[e][i]]]
    /\ pc' = "loop"
    /\ err' = err
    /\ UNCHANGED << config, dq, post, records, inventory, t, dt,
                    nb_iterations, u, u_n, T, T_n, density,
                    density_previous_solution, retries, converged, post_runs,
                    final_write, returned, history, bc_parameters,
                    bc_species, initialise_calls, flux_values, declared,
                    boundary_conditions, bcs, species, subdomains,
                    volume_subdomains, sources, formulation, times >>

\* HydrogenTransportProblem.defing_export_writers: every string of every
\* export.field is replaced by the species of that name
HTP_DefingExportWriters ==
    /\ prog = "htp"
    /\ pc = "defing_export_writers"
    /\ export_field' = ResolvedFields(export_field, 1)
    /\ IF \E e \in DOMAIN export_field :
             FirstUnknown(export_field[e]) <= Len(export_field[e])
       THEN /\ err' = "UnknownSpeciesError"
            /\ pc' = "error"
       ELSE /\ err' = err
            /\ pc' = "loop"
    /\ UNCHANGED << config, dq, post, records, inventory, t, dt,
                    nb_iterations, u, u_n, T, T_n, density,
                    density_previous_solution, retries, converged, post_runs,
                    final_write, returned, history, bc_parameters,
                    bc_species, initialise_calls, flux_values, declared,
                    boundary_conditions, bcs, species, subdomains,
                    volume_subdomains, sources, formulation, times >>

\* run: while self.t.value < final_time: self.t.value += self.dt.value;
\* bc.update(float(self.t)) for every boundary condition
HTP_AdvanceTime ==
    /\ prog = "htp"
    /\ pc = "loop"
    /\ t < final_time
    /\ t' = t + dt
    /\ trace' = << "advance", "update" >>
    /\ pc' = "solve"
    /\ UNCHANGED << config, dq, post, records, inventory, dt, nb_iterations,
                    u, u_n, T, T_n, density, density_previous_solution,
                    retries, outcome, writes, main_converged, density_solved,
                    last_commit, problem >>

\* run: self.solver.solve(self.u) converges
HTP_Solve ==
    /\ prog = "htp"
    /\ pc = "solve"
    /\ u' = t
    /\ trace' = Append(trace, "solve")
    /\ pc' = "post"
    /\ UNCHANGED << config, dq, post, records, inventory, t, dt,
                    nb_iterations, u_n, T, T_n, density,
                    density_previous_solution, retries, outcome, writes,
                    main_converged, density_solved, last_commit, problem >>

\* run: the Newton solver does not converge and raises
HTP_SolveFailed ==
    /\ prog = "htp"
    /\ pc = "solve"
    /\ u' = Diverged
    /\ err' = "RuntimeError"
    /\ pc' = "error"
    /\ UNCHANGED << config, dq, post, records, inventory, t, dt, nb_iterations, u_n, T, T_n, density,
                    density_previous_solution, retries, converged, post_runs,
                    final_write, returned, history, problem >>

\* run: the flux of the step, appended to flux_values for one species and
\* to flux_values_1 and flux_values_2 otherwise, where
\* cm_1, cm_2 = self.u.split() unpacks as many values as there are species
FluxesAppended(fluxes, nspecies, flux) ==
    IF nspecies = 1
    THEN [fluxes EXCEPT !.flux_values = Append(@, flux)]
    ELSE [fluxes EXCEPT !.flux_values_1 = Append(@, flux),
                        !.flux_values_2 = Append(@, flux)]

\* run: the surface fluxes are computed and the time recorded, then the
\* exports written; with more than two species the unpacking raises
HTP_PostProcessing ==
    /\ prog = "htp"
    /\ pc = "post"
    /\ IF species <= 2
       THEN /\ flux_values' = FluxesAppended(flux_values, species, u)
            /\ times' = Append(times, t)
            /\ post_runs' = post_runs + 1
            /\ trace' = (trace \o << "post", "export" >>)
            /\ pc' = "commit"
            /\ err' = err
       ELSE /\ err' = "ValueError"
            /\ pc' = "error"
            /\ UNCHANGED << flux_values, times, post_runs, trace >>
    /\ UNCHANGED << config, dq, post, records, inventory, t, dt,
                    nb_iterations, u, u_n, T, T_n, density,
                    density_previous_solution, retries, converged,
                    final_write, returned, writes, main_converged,
                    density_solved, last_commit, bc_parameters, bc_species,
                    export_field, initialise_calls, declared, boundary_conditions, bcs,
                    species, subdomains, volume_subdomains, sources,
                    formulation >>

\* run: self.u_n.x.array[:] = self.u.x.array[:]
HTP_Commit ==
    /\ prog = "htp"
    /\ pc = "commit"
    /\ u_n' = u
    /\ trace' = Append(trace, "commit")
    /\ pc' = "loop"
    /\ UNCHANGED << config, dq, post, records, inventory, t, dt,
                    nb_iterations, u, T, T_n, density,
                    density_previous_solution, retries, outcome, writes,
                    main_converged, density_solved, last_commit, problem >>

\* run: the loop exits; flux_values = [flux_values_1, flux_values_2] for
\* two species; times and flux_values are returned
HTP_Return ==
    /\ prog = "htp"
    /\ pc = "loop"
    /\ ~(t < final_time)
    /\ flux_values' =
          IF species = 2
          THEN [flux_values EXCEPT
                   !.flux_values = << flux_values.flux_values_1,
                                      flux_values.flux_values_2 >>]
          ELSE flux_values
    /\ returned' = TRUE
    /\ pc' = "done"
    /\ UNCHANGED << config, dq, post, records, inventory, t, dt,
                    nb_iterations, u, u_n, T, T_n, density,
                    density_previous_solution, retries, converged, err,
                    post_runs, final_write, history, bc_parameters,
                    bc_species, export_field, initialise_calls, declared,
                    boundary_conditions, bcs, species, subdomains,
                    volume_subdomains, sources, formulation, times >>

\* the problems handed to HydrogenTransportProblem(...)
InitHTP ==
    /\ LoopIdle
    /\ PostIdle
    /\ prog = "htp"
    /\ pc = "initialise"
    /\ final_time \in 0..MaxFinalTime
    /\ dt \in 1..MaxStepsize
    /\ species \in 1..MaxSpecies
    /\ subdomains \in {[k \in 1..n |-> k] : n \in 1..MaxVolumes}
    /\ volume_subdomains = << >>
    /\ sources \in SeqsUpTo(0..(species - 1), MaxSources)
    /\ formulation = [defined |-> FALSE, terms |-> << >>]
    /\ times = << >>
    /\ bcs = << >>
    /\ bc_parameters = << >>
    /\ boundary_conditions \in
          {<< >>} \cup {<< b >> : b \in {x \in BCObjects : x.species < species}}
    /\ bc_species = [k \in DOMAIN boundary_conditions |-> "Species"]
    /\ export_field = << >>
    /\ initialise_calls = 0
    /\ flux_values = NoFluxes
    /\ declared = << bc_species, export_field >>
    /\ RecordsIdle

NextHTP ==
    \/ HTP_Initialise
    \/ HTP_DefineBoundaryConditions
    \/ HTP_CreateFormulation
    \/ HTP_CreateSolver
    \/ HTP_DefingExportWriters
    \/ HTP_AdvanceTime
    \/ HTP_Solve
    \/ HTP_SolveFailed
    \/ HTP_PostProcessing
    \/ HTP_Commit
    \/ HTP_Return

HTPSpec == InitHTP /\ [][NextHTP]_vars

\* --------------------------- HydrogenTransportProblem: the declared model
MaxInitialise == 2
MaxFields == 2

\* initialise called again on the same model, before run
HTP_InitialiseAgain ==
    /\ prog = "htp"
    /\ pc = "loop"
    /\ t = 0
    /\ times = << >>
    /\ initialise_calls < MaxInitialise
    /\ volume_subdomains' = volume_subdomains \o subdomains
    /\ initialise_calls' = initialise_calls + 1
    /\ u' = 0
    /\ u_n' = 0
    /\ t' = 0
    /\ pc' = "define_boundary_conditions"
    /\ UNCHANGED << config, dq, post, records, inventory, dt, nb_iterations,
                    T, T_n, density, density_previous_solution, retries,
                    outcome, history, bc_parameters, bc_species,
                    export_field, flux_values, declared, boundary_conditions, bcs,
                    species, subdomains, sources, formulation, times >>

\* the values of export.field: a list of references
FieldLists == SeqsUpTo(References, MaxFields) \ {<< >>}

\* the models handed to HydrogenTransportProblem(...): any number of
\* species up to one more than run unpacks, at most one boundary condition
\* and one export, their species given as objects or as strings
InitProblem ==
    /\ LoopIdle
    /\ PostIdle
    /\ prog = "htp"
    /\ pc = "initialise"
    /\ final_time \in 0..MaxFinalTime
    /\ dt = 1
    /\ species \in 1..(MaxSpecies + 1)
    /\ subdomains \in {[k \in 1..n |-> k] : n \in 1..MaxVolumes}
    /\ volume_subdomains = << >>
    /\ sources = << >>
    /\ formulation = [defined |-> FALSE, terms |-> << >>]
    /\ times = << >>
    /\ bcs = << >>
    /\ bc_parameters = << >>
    /\ boundary_conditions \in
          {<< >>} \cup {<< b >> : b \in {x \in BCObjects :
                                           /\ x.species = 0
                                           /\ x.surfaces = {1}}}
    /\ bc_species \in [DOMAIN boundary_conditions -> References]
    /\ export_field \in {<< >>} \cup {<< field >> : field \in FieldLists}
    /\ initialise_calls = 0
    /\ flux_values = NoFluxes
    /\ declared = << bc_species, export_field >>
    /\ RecordsIdle

NextProblem ==
    \/ NextHTP
    \/ HTP_InitialiseAgain

ProblemSpec == InitProblem /\ [][NextProblem]_vars

\* ------------------------------------------- closed system (the script)
\* a transient run of the script with no boundary condition and no
\* extrinsic trap: the solute and the traps exchange what they hold
InitBalance ==
    /\ dq_pc = "off"
    /\ derived_quantities_key = ""
    /\ derived_quantities_entry = NoEntry
    /\ dq_err = ""
    /\ dq_steps = 0
    /\ prog = "cas"
    /\ transient = TRUE
    /\ final_time \in 1..MaxFinalTime
    /\ adaptive_stepsize = [on |-> FALSE, t_stop |-> NoStop,
                            stepsize_stop_max |-> 0]
    /\ T_type \in TemperatureTypes
    /\ traps \in UNION {[1..n -> {FALSE}] : n \in 0..MaxTraps}
    /\ dt = 1
    /\ pc = "run"
    /\ t = 0
    /\ nb_iterations = 0
    /\ u = 0 /\ u_n = 0 /\ T = 0 /\ T_n = 0
    /\ density = [i \in TrapIds |-> 0]
    /\ density_previous_solution = [i \in TrapIds |-> 0]
    /\ retries = 0
    /\ converged = FALSE
    /\ err = ""
    /\ post_runs = 0
    /\ final_write = FALSE
    /\ returned = FALSE
    /\ trace = << >>
    /\ writes = << >>
    /\ main_converged = FALSE
    /\ density_solved = {}
    /\ last_commit = Committed(0, 0, 0, 0, [i \in TrapIds |-> 0])
    /\ bc_parameters = << >>
    /\ ModelIdle
    /\ boundary_conditions = << >>
    /\ bcs = << >>
    /\ species = 1
    /\ subdomains \in {[k \in 1..n |-> k] : n \in 1..MaxVolumes}
    /\ volume_subdomains = << >>
    /\ sources = << >>
    /\ formulation = [defined |-> FALSE, terms |-> << >>]
    /\ times = << >>
    /\ trap_materials \in
          [TrapIds -> {{1}, {subdomains[k] : k \in 1..Len(subdomains)}}]
    /\ trap_density = [i \in TrapIds |-> 1]
    /\ mobile_inventory \in 0..MaxInventory
    /\ trap_inventory = [i \in TrapIds |-> 0]
    /\ previous_mobile_inventory = mobile_inventory
    /\ previous_trap_inventory = trap_inventory
    /\ initial_inventory = mobile_inventory
    /\ PostIdle
    /\ RecordsIdle
    /\ export_derived_quantities = FALSE
    /\ ExportsIdle

NextBalance ==
    \/ Cas_Start
    \/ Cas_Formulation
    \/ Cas_AdvanceTime
    \/ Cas_UpdateTemperature
    \/ Cas_SolveHeat
    \/ Cas_SolveMain
    \/ Cas_PostProcessing
    \/ Cas_Commit
    \/ Cas_TransientEnd

BalanceSpec == InitBalance /\ [][NextBalance]_vars

Next == NextSim \/ NextCas

Spec == Init /\ [][Next]_vars

\* ------------------------------------------------------------ the exports
\* nb_iterations_between_compute of the DerivedQuantities export
MaxBetween == 2

\* runs with a DerivedQuantities and an XDMF export, without traps, with a
\* prescribed temperature and a fixed stepsize
InitExport ==
    /\ dq_pc = "off"
    /\ derived_quantities_key = ""
    /\ derived_quantities_entry = NoEntry
    /\ dq_err = ""
    /\ dq_steps = 0
    /\ prog \in {"sim", "cas"}
    /\ transient \in BOOLEAN
    /\ final_time \in 0..MaxFinalTime
    /\ adaptive_stepsize = [on |-> FALSE, t_stop |-> NoStop,
                            stepsize_stop_max |-> 0]
    /\ T_type = "expression"
    /\ traps = << >>
    /\ dt = 1
    /\ (~transient) => final_time = 0
    /\ pc = "run"
    /\ t = 0
    /\ nb_iterations = 0
    /\ u = 0 /\ u_n = 0 /\ T = 0 /\ T_n = 0
    /\ density = [i \in TrapIds |-> 0]
    /\ density_previous_solution = [i \in TrapIds |-> 0]
    /\ retries = 0
    /\ converged = FALSE
    /\ err = ""
    /\ post_runs = 0
    /\ final_write = FALSE
    /\ returned = FALSE
    /\ trace = << >>
    /\ writes = << >>
    /\ main_converged = FALSE
    /\ density_solved = {}
    /\ last_commit = Committed(0, 0, 0, 0, [i \in TrapIds |-> 0])
    /\ ProblemIdle
    /\ InventoryIdle
    /\ PostIdle
    /\ RecordsIdle
    /\ export_derived_quantities \in BOOLEAN
    /\ nb_iterations_between_compute \in 1..MaxBetween
    /\ export_xdmf \in BOOLEAN
    /\ xdmf_append = FALSE
    /\ computed_at = << >>
    /\ xdmf_writes = << >>

NextExport ==
    \/ Run_Start
    \/ Iterate_AdvanceTime
    \/ Iterate_UpdateTemperature
    \/ Iterate_SolveMain
    \/ Iterate_SolveMainFailed
    \/ Iterate_PostProcessing
    \/ Iterate_Commit
    \/ Iterate_ClipStepsize
    \/ Run_TransientEnd
    \/ Run_SolveSteady
    \/ Run_SteadyPostProcessing
    \/ Run_SteadyEnd
    \/ Run_SteadyDiverged
    \/ Cas_Start
    \/ Cas_Formulation
    \/ Cas_AdvanceTime
    \/ Cas_UpdateTemperature
    \/ Cas_SolveMain
    \/ Cas_SolveMainFailed
    \/ Cas_PostProcessing
    \/ Cas_Commit
    \/ Cas_TransientEnd
    \/ Cas_SolveSteady
    \/ Cas_SteadyEnd

ExportSpec == InitExport /\ [][NextExport]_vars

\* ------------------------------------------------- selection of the mode

\* the values of solving_parameters["type"]; "solve_steady" stands for a
\* value that is neither of the two known ones, "missing" for no key
SolvingTypes ==
    {"solve_transient", "solve_stationary", "solve_steady", "missing"}

\* faulty variant: an unknown type keeps the default mode
ModeOf_Lenient(type, default) ==
    IF type = "solve_stationary" THEN "steady"
    ELSE IF type = "solve_transient" THEN "transient"
    ELSE IF default THEN "transient" ELSE "steady"

\* the if / elif chain on the type: "transient", "steady", or "ValueError"
ModeOf(type, default) ==
    IF type = "missing" THEN (IF default THEN "transient" ELSE "steady")
    ELSE IF type = "solve_transient" THEN "transient"
    ELSE IF type = "solve_stationary" THEN "steady"
    ELSE "ValueError"

\* what the set-up of the mode leaves alone
SetupFrame ==
    UNCHANGED << parameters, dq, problem, post, derived_quantities_global,
                 step_times, steady_solves, solved_with, exports_state,
                 loop >>

\* Simulation.create_settings
Sim_CreateSettings ==
    /\ prog = "sim"
    /\ pc = "create_settings"
    /\ LET mode == ModeOf(solving_type, transient)
       IN  IF mode = "ValueError"
           THEN /\ err' = "ValueError"
                /\ pc' = "error"
                /\ UNCHANGED << transient, dt_object >>
           ELSE /\ transient' = (mode = "transient")
                /\ dt_object' = IF solving_type = "solve_stationary"
                                THEN "None" ELSE dt_object
                /\ pc' = "create_stepsize"
                /\ err' = err
    /\ UNCHANGED << parameters, dq, problem, post,
                    derived_quantities_global, step_times, steady_solves,
                    solved_with, exports_state, inventory, t, dt,
                    nb_iterations, u, u_n, T, T_n,
                    density, density_previous_solution, retries, converged,
                    post_runs, final_write, returned, history >>

\* Simulation.create_stepsize; the rest of __init__ and initialise build
\* what Init describes
Sim_CreateStepsize ==
    /\ prog = "sim"
    /\ pc = "create_stepsize"
    /\ dt_object' = StepsizeObject(prog, transient)
    /\ pc' = "run"
    /\ UNCHANGED transient
    /\ SetupFrame

\* run (script): "Check if transient" and the declaration of dt
Cas_SelectMode ==
    /\ prog = "cas"
    /\ pc = "select_mode"
    /\ LET mode == ModeOf(solving_type, TRUE)
       IN  IF mode = "ValueError"
           THEN /\ err' = "ValueError"
                /\ pc' = "error"
                /\ UNCHANGED << transient, dt_object >>
           ELSE /\ transient' = (mode = "transient")
                /\ dt_object' = StepsizeObject(prog, mode = "transient")
                /\ pc' = "run"
                /\ err' = err
    /\ UNCHANGED << parameters, dq, problem, post,
                    derived_quantities_global, step_times, steady_solves,
                    solved_with, exports_state, inventory, t, dt,
                    nb_iterations, u, u_n, T, T_n,
                    density, density_previous_solution, retries, converged,
                    post_runs, final_write, returned, history >>

\* the parameters dict is given; no mode is selected and no dt is bound
InitSetup ==
    /\ dq_pc = "off"
    /\ derived_quantities_key = ""
    /\ derived_quantities_entry = NoEntry
    /\ dq_err = ""
    /\ dq_steps = 0
    /\ prog \in {"sim", "cas"}
    /\ solving_type \in SolvingTypes
    /\ transient = TRUE
    /\ dt_object = "unset"
    /\ final_time \in 0..MaxFinalTime
    /\ adaptive_stepsize \in AdaptiveConfigs
    /\ T_type \in TemperatureTypes
    /\ traps \in TrapLists
    /\ dt \in 1..MaxStepsize
    /\ solving_type \in {"solve_stationary", "solve_steady"} =>
          /\ final_time = 0
          /\ dt = 1
          /\ adaptive_stepsize.on = FALSE
    /\ pc = IF prog = "sim" THEN "create_settings" ELSE "select_mode"
    /\ t = 0
    /\ nb_iterations = 0
    /\ u = 0 /\ u_n = 0 /\ T = 0 /\ T_n = 0
    /\ density = [i \in TrapIds |-> 0]
    /\ density_previous_solution = [i \in TrapIds |-> 0]
    /\ retries = 0
    /\ converged = FALSE
    /\ err = ""
    /\ post_runs = 0
    /\ final_write = FALSE
    /\ returned = FALSE
    /\ trace = << >>
    /\ writes = << >>
    /\ main_converged = FALSE
    /\ density_solved = {}
    /\ last_commit = Committed(0, 0, 0, 0, [i \in TrapIds |-> 0])
    /\ ProblemIdle
    /\ InventoryIdle
    /\ PostIdle
    /\ derived_quantities_global = << >>
    /\ step_times = << >>
    /\ steady_solves = 0
    /\ solved_with = 0
    /\ export_derived_quantities = FALSE
    /\ ExportsIdle

NextSetup ==
    \/ Sim_CreateSettings
    \/ Sim_CreateStepsize
    \/ Cas_SelectMode

SetupSpec == InitSetup /\ [][NextSetup \/ Next]_vars

\* ----------------------------------------- the fields of post-processing

\* an interval mesh with P1 elements: cell c lies between the dofs c, c + 1
Cells == 1..MaxVolumes
Dofs == 1..(MaxVolumes + 1)
cell_dofs(c) == {c, c + 1}

\* a field is the sequence of its dof values
Uniform(v) == [d \in Dofs |-> v]
Peak(k, v) == [d \in Dofs |-> IF d = k THEN v ELSE 0]
\* the fields a solve may return: flat ones and ones peaked at one dof
Fields ==
    {Uniform(v) : v \in 0..MaxConcentration}
        \cup {Peak(k, v) : k \in Dofs, v \in 1..MaxConcentration}
\* the solubility: absent, the same everywhere, or growing along the mesh
Solubilities == {<< >>, Uniform(2), [d \in Dofs |-> d + 1]}
\* the volume markers: every cell is tagged, the ids 1..n are all in use
Markings ==
    {m \in [Cells -> 1..MaxVolumes] :
        /\ m[1] = 1
        /\ \A c \in Cells \ {1} : m[c] \in {m[c - 1], m[c - 1] + 1}}

\* f*g at the dofs, what project(f*g, V_DG1) holds
Product(f, g) == [d \in Dofs |-> f[d] * g[d]]

RECURSIVE SumFrom(_, _)
SumFrom(fs, i) ==
    IF i > Len(fs) THEN Uniform(0)
    ELSE [d \in Dofs |-> fs[i][d] + SumFrom(fs, i + 1)[d]]
\* the builtin sum of a list of fields
sum(fs) == SumFrom(fs, 1)

\* run_post_processing (post_processing.py), update_post_processing_solutions
\* (Simulation): res = list(u.split()), the solute replaced by theta*S if
\* there is a solubility
SoluteFirst(sols, S_) ==
    IF S_ # << >> THEN [sols EXCEPT ![1] = Product(sols[1], S_)] ELSE sols

\* faulty variant: the retention is summed from the solved variables
post_processing_res_Raw(sols, S_, temp) ==
    Append(Append(SoluteFirst(sols, S_), sum(sols)), Uniform(temp))

\* run_post_processing (post_processing.py): the list res when the derived
\* quantities are computed: the fields, the retention, the temperature
post_processing_res(sols, S_, temp) ==
    LET r == SoluteFirst(sols, S_)
    IN  Append(Append(r, sum(r)), Uniform(temp))

\* Simulation.run_post_processing: label_to_function
sim_label_to_function(sols, S_, temp) ==
    LET r == SoluteFirst(sols, S_)
        mobile == r[1]
        trap_solutions == SubSeq(r, 2, Len(r))
    IN  [solute |-> IF S_ # << >> THEN Product(sols[1], S_) ELSE mobile,
         T |-> Uniform(temp),
         retention |-> sum(<< mobile >> \o trap_solutions),
         traps |-> trap_solutions]

\* the dofs of the cells marked with subd_id
subd_dofs(markers, subd_id) ==
    UNION {cell_dofs(c) : c \in {k \in Cells : markers[k] = subd_id}}

calculate_maximum_volume(f, markers, subd_id) ==
    LET vals == {f[d] : d \in subd_dofs(markers, subd_id)}
    IN  CHOOSE x \in vals : \A y \in vals : y <= x

calculate_minimum_volume(f, markers, subd_id) ==
    LET vals == {f[d] : d \in subd_dofs(markers, subd_id)}
    IN  CHOOSE x \in vals : \A y \in vals : x <= y

Extremum(kind, f, markers, subd_id) ==
    IF kind = "minimum_volume"
    THEN calculate_minimum_volume(f, markers, subd_id)
    ELSE calculate_maximum_volume(f, markers, subd_id)

\* val = 0; for f in solutions[0:-2]: val += calculate_..._volume(f, ...)
RECURSIVE AddExtrema(_, _, _, _, _)
AddExtrema(kind, fs, i, markers, subd_id) ==
    IF i > Len(fs) - 2 THEN 0
    ELSE Extremum(kind, fs[i], markers, subd_id)
             + AddExtrema(kind, fs, i + 1, markers, subd_id)

\* field_to_sol of derived_quantities
field_to_sol(fs, field) ==
    IF field = "solute" THEN fs[1]
    ELSE IF field = "retention" THEN fs[Len(fs) - 1]
    ELSE IF field = "T" THEN fs[Len(fs)]
    ELSE LET i == CHOOSE k \in 1..(Len(fs) - 3) : ToString(k) = field
         IN  fs[i + 1]

\* the labels of the fields: "solute", "retention", "T", str(i) per trap
FieldLabels(ntraps) ==
    {"solute", "retention", "T"} \cup {ToString(k) : k \in 1..ntraps}

\* the entries of "minimum_volume" and "maximum_volume": every field in
\* every volume
Requests(ntraps, markers) ==
    [kind : {"minimum_volume", "maximum_volume"},
     field : FieldLabels(ntraps),
     volume : {markers[c] : c \in Cells}]

\* derived_quantities: the value computed for one entry and one volume
derived_quantity(q, fs, markers) ==
    IF q.field = "retention"
    THEN AddExtrema(q.kind, fs, 1, markers, q.volume)
    ELSE Extremum(q.kind, field_to_sol(fs, q.field), markers, q.volume)

\* run_post_processing, up to the call of derived_quantities
PP_Fields ==
    /\ prog = "post"
    /\ pc = "run_post_processing"
    /\ res' = post_processing_res(solutions, solubility, T)
    /\ pc' = "derived_quantities"
    /\ UNCHANGED << config, dq, records, loop, problem, solutions, solubility,
                    computed_solutions, computed_sol, dq_parameters,
                    volume_markers, label_to_function, tab >>

\* derived_quantities(parameters, res, markers, properties)
PP_DerivedQuantities ==
    /\ prog = "post"
    /\ pc = "derived_quantities"
    /\ tab' = [q \in Requests(Len(solutions) - 1, volume_markers) |->
                  derived_quantity(q, res, volume_markers)]
    /\ pc' = "done"
    /\ UNCHANGED << config, dq, records, loop, problem, solutions, solubility,
                    computed_solutions, computed_sol, dq_parameters,
                    volume_markers, res, label_to_function >>

\* Simulation.update_post_processing_solutions
Sim_UpdatePostProcessingSolutions ==
    /\ prog = "sim"
    /\ pc = "update_post_processing_solutions"
    /\ res' = SoluteFirst(solutions, solubility)
    /\ pc' = "label_to_function"
    /\ UNCHANGED << config, dq, records, loop, problem, solutions, solubility,
                    computed_solutions, computed_sol, dq_parameters,
                    volume_markers, label_to_function, tab >>

\* Simulation.run_post_processing: the dict label_to_function
Sim_LabelToFunction ==
    /\ prog = "sim"
    /\ pc = "label_to_function"
    /\ label_to_function' = sim_label_to_function(solutions, solubility, T)
    /\ pc' = "done"
    /\ UNCHANGED << config, dq, records, loop, problem, solutions, solubility,
                    computed_solutions, computed_sol, dq_parameters,
                    volume_markers, res, tab >>

InitFields ==
    /\ LoopIdle
    /\ ProblemIdle
    /\ final_time = 0
    /\ dt = 1
    /\ solutions \in UNION {[1..n -> Fields] : n \in 1..(MaxTraps + 1)}
    /\ solubility \in Solubilities
    /\ volume_markers \in Markings
    /\ res = << >>
    /\ label_to_function = << >>
    /\ tab = << >>
    /\ computed_solutions = NoReference
    /\ computed_sol = NotComputed
    /\ dq_parameters = << >>
    /\ prog \in {"post", "sim"}
    /\ pc = IF prog = "post" THEN "run_post_processing"
            ELSE "update_post_processing_solutions"
    /\ RecordsIdle

NextFields ==
    \/ PP_Fields
    \/ PP_DerivedQuantities
    \/ Sim_UpdatePostProcessingSolutions
    \/ Sim_LabelToFunction

FieldSpec == InitFields /\ [][NextFields]_vars

\* ------------------------------------------------------- compute_error
\* the outcome of a lookup: a field, or the exception raised
Found(f) == [exc |-> "", sol |-> f]
Raised(e) == [exc |-> e, sol |-> << >>]

\* res[n] of a Python list: counted from 0, from the end if negative
PyIndex(list, n) ==
    IF 0 <= n /\ n < Len(list) THEN Found(list[n + 1])
    ELSE IF n < 0 /\ 0 - n <= Len(list) THEN Found(list[Len(list) + n + 1])
    ELSE Raised("IndexError")

\* run (script): res = [u] or list(u.split()); compute_error gets [*res, T]
script_error_res(sols, temp) == Append(sols, Uniform(temp))

\* compute_error: solution_dict of the list it is handed
solution_dict(list) ==
    [solute |-> list[1],
     retention |-> list[Len(list) - 1],
     T |-> list[Len(list)]]

\* compute_error: computed_sol for one entry of "computed_solutions"; for a
\* value that is neither a str nor an int no branch binds computed_sol
compute_error(list, ref) ==
    IF ref.kind = "str"
    THEN IF IsDigit(ref.str) THEN PyIndex(list, IntOfStr(ref.str))
         ELSE IF ref.str = "solute" THEN Found(solution_dict(list).solute)
         ELSE IF ref.str = "retention"
              THEN Found(solution_dict(list).retention)
         ELSE IF ref.str = "T" THEN Found(solution_dict(list).T)
         ELSE Raised("KeyError")
    ELSE IF ref.kind = "int" THEN PyIndex(list, ref.num)
    ELSE Raised("UnboundLocalError")

\* run (script): the error of the final solution
Cas_ComputeError ==
    /\ prog = "cas"
    /\ pc = "compute_error"
    /\ computed_sol' =
          compute_error(script_error_res(solutions, T), computed_solutions)
    /\ pc' = "done"
    /\ UNCHANGED << config, dq, records, loop, problem, solutions, solubility,
                    computed_solutions, dq_parameters, volume_markers, res,
                    label_to_function, tab >>

\* the end of a run of the script with an "error" export: the solved
\* fields, the temperature and one computed-solution reference
InitError ==
    /\ LoopIdle
    /\ ProblemIdle
    /\ final_time = 0
    /\ dt = 1
    /\ solutions \in UNION {[1..n -> Fields] : n \in 1..(MaxTraps + 1)}
    /\ solubility = << >>
    /\ volume_markers = [c \in Cells |-> 1]
    /\ res = << >>
    /\ label_to_function = << >>
    /\ tab = << >>
    /\ computed_solutions \in FieldValues \ {NoReference}
    /\ computed_sol = NotComputed
    /\ dq_parameters = << >>
    /\ prog = "cas"
    /\ pc = "compute_error"
    /\ RecordsIdle

ErrorSpec == InitError /\ [][Cas_ComputeError]_vars

\* ------------------------------ the table of derived quantities (script)
MaxEntries == 2

\* one entry of a quantity: its field, its "surfaces" and its "volumes"
TableEntries ==
    [field : {StrField("solute"), StrField("retention")},
     surfaces : {<< 1 >>, << 1, 2 >>},
     volumes : {<< 1 >>, << 2, 1 >>}]

\* the entries listed under one key, in the order they were declared
RECURSIVE EntriesUnder(_, _)
EntriesUnder(quantity, pairs) ==
    IF pairs = << >> THEN << >>
    ELSE (IF pairs[1].quantity = quantity
          THEN << pairs[1].entry >> ELSE << >>)
            \o EntriesUnder(quantity, Tail(pairs))

\* the dict parameters["exports"]["derived_quantities"]; a key that is
\* absent holds no entry
DictOf(pairs) == [q \in quantity_types |-> EntriesUnder(q, pairs)]

\* a column: the quantity, the field and the surface or volume it is for
Column(quantity, field, id) ==
    [quantity |-> quantity, field |-> field, on |-> id]
TimeColumn == Column("t", "", 0)

\* for x in ids: one column each
ColumnsFor(quantity, field, ids) ==
    [k \in DOMAIN ids |-> Column(quantity, field, ids[k])]

\* header_derived_quantities: the loop of one quantity over its entries
RECURSIVE HeaderBlock(_, _)
HeaderBlock(quantity, entries) ==
    IF entries = << >> THEN << >>
    ELSE ColumnsFor(quantity, StrOfField(entries[1].field),
                    IF quantity \in SurfaceQuantities
                    THEN entries[1].surfaces ELSE entries[1].volumes)
            \o HeaderBlock(quantity, Tail(entries))

\* faulty variant: the totals come before the extrema
header_TotalsFirst(d) ==
    << TimeColumn >>
        \o HeaderBlock("surface_flux", d["surface_flux"])
        \o HeaderBlock("average_volume", d["average_volume"])
        \o HeaderBlock("total_volume", d["total_volume"])
        \o HeaderBlock("minimum_volume", d["minimum_volume"])
        \o HeaderBlock("maximum_volume", d["maximum_volume"])
        \o HeaderBlock("total_surface", d["total_surface"])

\* header_derived_quantities: 't(s)', then the quantities in this order
header(d) ==
    << TimeColumn >>
        \o HeaderBlock("surface_flux", d["surface_flux"])
        \o HeaderBlock("average_volume", d["average_volume"])
        \o HeaderBlock("minimum_volume", d["minimum_volume"])
        \o HeaderBlock("maximum_volume", d["maximum_volume"])
        \o HeaderBlock("total_volume", d["total_volume"])
        \o HeaderBlock("total_surface", d["total_surface"])

\* derived_quantities: the values one quantity appends to tab, each named
\* by what was computed; the retention has its own loop for the extrema
RECURSIVE TabBlock(_, _)
TabBlock(quantity, entries) ==
    IF entries = << >> THEN << >>
    ELSE LET e == entries[1]
             name == StrOfField(e.field)
         IN  (CASE quantity \in {"surface_flux", "total_surface"} ->
                     ColumnsFor(quantity, name, e.surfaces)
                [] quantity \in {"minimum_volume", "maximum_volume"} ->
                     IF name = "retention"
                     THEN ColumnsFor(quantity, "retention", e.volumes)
                     ELSE ColumnsFor(quantity, name, e.volumes)
                [] OTHER -> ColumnsFor(quantity, name, e.volumes))
                \o TabBlock(quantity, Tail(entries))

\* derived_quantities: a lookup in field_to_sol or field_to_prop fails
TabRaises(d, ntraps) ==
    \E q \in quantity_types : \E k \in DOMAIN d[q] :
        derived_quantities(q, [field |-> d[q][k].field, surfaces |-> TRUE,
                               volumes |-> TRUE], ntraps) # "ok"

\* derived_quantities: tab
derived_quantities_tab(d) ==
    TabBlock("surface_flux", d["surface_flux"])
        \o TabBlock("average_volume", d["average_volume"])
        \o TabBlock("minimum_volume", d["minimum_volume"])
        \o TabBlock("maximum_volume", d["maximum_volume"])
        \o TabBlock("total_volume", d["total_volume"])
        \o TabBlock("total_surface", d["total_surface"])

\* run (script): derived_quantities_global = [header_derived_quantities(
\* parameters)]; every entry of the model passes the check of the keys
Table_Header ==
    /\ prog = "cas"
    /\ pc = "header"
    /\ derived_quantities_global' = << header(dq_parameters) >>
    /\ pc' = "row"
    /\ UNCHANGED << config, dq, post, solved_with, exports_state, dt_object,
                    step_times, steady_solves, loop, problem >>

\* run_post_processing: derived_quantities_t = derived_quantities(...),
\* derived_quantities_t.insert(0, t), appended to the global list
Table_Row ==
    /\ prog = "cas"
    /\ pc = "row"
    /\ IF TabRaises(dq_parameters, Len(traps))
       THEN /\ err' = "KeyError"
            /\ pc' = "error"
            /\ UNCHANGED << derived_quantities_global, post_runs >>
       ELSE /\ derived_quantities_global' =
                  Append(derived_quantities_global,
                         << TimeColumn >>
                             \o derived_quantities_tab(dq_parameters))
            /\ post_runs' = post_runs + 1
            /\ pc' = "done"
            /\ err' = err
    /\ UNCHANGED << config, dq, post, solved_with, exports_state, dt_object,
                    step_times, steady_solves, inventory, t, dt,
                    nb_iterations, u, u_n, T, T_n, density,
                    density_previous_solution, retries, converged,
                    final_write, returned, history, problem >>

\* the declared derived quantities: up to MaxEntries entries, each under
\* one of the quantity keys
InitTable ==
    /\ LoopIdle
    /\ ProblemIdle
    /\ final_time = 1
    /\ dt = 1
    /\ solutions = << >>
    /\ solubility = << >>
    /\ volume_markers = << >>
    /\ res = << >>
    /\ label_to_function = << >>
    /\ tab = << >>
    /\ computed_solutions = NoReference
    /\ computed_sol = NotComputed
    /\ dq_parameters \in
          {DictOf(pairs) :
              pairs \in SeqsUpTo([quantity : quantity_types,
                                  entry : TableEntries], MaxEntries)}
    /\ prog = "cas"
    /\ pc = "header"
    /\ RecordsIdle

NextTable ==
    \/ Table_Header
    \/ Table_Row

TableSpec == InitTable /\ [][NextTable]_vars

\* ------------------------------------------- runs in which no solve fails
\* the transient Simulation.run when every solve succeeds; the program is
\* sequential, so a step that can be taken is taken
NextAllConverge ==
    \/ Run_Start
    \/ Iterate_AdvanceTime
    \/ Iterate_UpdateTemperature
    \/ Iterate_SolveHeat
    \/ Iterate_SolveMain
    \/ Iterate_SolveExtrinsic
    \/ Iterate_PostProcessing
    \/ Iterate_Commit
    \/ Iterate_ClipStepsize
    \/ Run_TransientEnd

LiveSpec == Init /\ [][NextAllConverge]_vars /\ WF_vars(NextAllConverge)

\* ------------------------------------------------------------ properties
SimTransient == prog = "sim" /\ transient

\* the run is inside a time step
InStep == pc \in {"refresh", "heat", "main", "ext", "post", "commit", "clip"}

\* the step the trace belongs to has gone through its commit block
StepCommitted ==
    /\ trace # << >>
    /\ trace[Len(trace)] \in {"commit", "clip"}

\* a main or an extrinsic-trap solve has failed and ended the run
SolveFailed ==
    /\ pc = "error"
    /\ trace # << >>
    /\ trace[Len(trace)] \in {"main", "ext"}

\* number of assignments of this step to a previous-value slot
NbWrites(slot, idx) ==
    Cardinality({k \in 1..Len(writes) :
                    writes[k].slot = slot /\ writes[k].idx = idx})

\* C1: in a transient Simulation.run the time never exceeds final_time and
\* the loop exits with t = final_time, for every initial stepsize.
C1_LandsExactlyAtFinalTime ==
    SimTransient =>
        /\ t <= final_time
        /\ (pc = "done" => t = final_time)

\* C2: in every state of a transient Simulation.run 0 <= t <= final_time,
\* and each call of iterate leaves t strictly greater than the call before.
C2_TimeBoundedAndIncreasing ==
    SimTransient =>
        /\ 0 <= t /\ t <= final_time
        /\ (InStep /\ pc # "clip" => t > last_commit.t)
        /\ (pc = "clip" => t = last_commit.t)

\* C3 (as stated): dt.value is strictly positive in every reachable state of
\* a transient Simulation run, also after the clipping of the last step.
C3_StepsizeAlwaysPositive ==
    SimTransient => dt > 0

\* C3 (amended): dt.value is strictly positive as long as a further step is
\* to be taken (t < final_time); the clipping of the step that reaches or
\* passes final_time leaves dt.value = final_time - t, which is not positive.
C3_StepsizePositiveWhileStepping ==
    SimTransient =>
        /\ (t < final_time => dt > 0)
        /\ (pc = "loop" /\ nb_iterations > 0 /\ t >= final_time
                => dt = final_time - t)

\* C3 witness: a clipped, still positive stepsize with a step left to take
C3_Witness ==
    /\ SimTransient
    /\ pc = "loop"
    /\ nb_iterations > 0
    /\ t < final_time
    /\ t + dt = final_time
    /\ dt < MaxStepsize

\* C4: when every solve succeeds the transient loop of Simulation.run
\* terminates, takes no step afterwards, and takes no step at all when
\* final_time = 0.
C4_TransientLoopTerminates ==
    /\ [](SimTransient => <>(pc = "done"))
    /\ [][pc = "done" => pc' = "done"]_vars
    /\ [](SimTransient /\ final_time = 0 => nb_iterations = 0)

\* C4 witness: a run that has terminated after several steps
C4_Witness ==
    /\ SimTransient
    /\ pc = "done"
    /\ nb_iterations >= 2

C6_PreviousWrittenOnlyInCommit ==
    \A k \in 1..Len(writes) : writes[k].phase = "commit"

\* C6 (amended): within a step u_n and the previous trap densities are
\* assigned only in the commit block; T_n is assigned before the main solve
\* (at the temperature refresh or right after the transient heat solve) and,
\* in the script, again in the commit block.
C6_ConcentrationsWrittenOnlyInCommit ==
    \A k \in 1..Len(writes) :
        /\ writes[k].slot # "T_n" => writes[k].phase = "commit"
        /\ writes[k].slot = "T_n" /\ prog = "sim"
               => writes[k].phase \in {"refresh", "heat"}
        /\ writes[k].slot = "T_n" /\ prog = "cas"
               => writes[k].phase \in {"heat", "commit"}

\* C6 witness: a committed step that wrote T_n before its main solve
C6_Witness ==
    /\ prog = "sim"
    /\ pc = "clip"
    /\ NbWrites("u_n", 0) = 1
    /\ \E k \in 1..Len(writes) :
          writes[k].slot = "T_n" /\ writes[k].phase = "refresh"
    /\ \E i \in ExtrinsicTraps : NbWrites("density_previous_solution", i) = 1

\* C7: in a step the previous density of an extrinsic trap is assigned at
\* most once, only when the main solve and that trap's density solve of the
\* step have succeeded, exactly once when the step is committed, and not at
\* all when the step ended in a failed solve.
C7_PreviousDensityOncePerAcceptedStep ==
    \A i \in TrapIds :
        LET n == NbWrites("density_previous_solution", i) IN
        /\ n <= 1
        /\ (n = 1 => traps[i] /\ main_converged /\ i \in density_solved)
        /\ (StepCommitted /\ traps[i] => n = 1)
        /\ (pc = "error" => n = 0)

\* C7 witness: a second committed step with an extrinsic trap
C7_Witness ==
    /\ prog = "sim"
    /\ pc = "loop"
    /\ nb_iterations >= 2
    /\ StepCommitted
    /\ \E i \in ExtrinsicTraps :
          /\ NbWrites("density_previous_solution", i) = 1
          /\ density_previous_solution[i] = t

\* the place of a phase in a step of Simulation.iterate
Rank(phase) ==
    CASE phase = "advance" -> 1
      [] phase = "refresh" -> 2
      [] phase = "heat" -> 3
      [] phase = "main" -> 4
      [] phase = "ext" -> 5
      [] phase = "post" -> 6
      [] phase = "commit" -> 7
      [] phase = "clip" -> 8

\* phases every step performs
Mandatory == {"advance", "refresh", "main", "post", "commit", "clip"}

NbPhase(phase) == Cardinality({k \in 1..Len(trace) : trace[k] = phase})

\* C8: a step of Simulation.iterate performs advance, refresh (with the
\* heat solve when the temperature is solve_transient), main solve,
\* extrinsic solves, post processing, commit, clipping in this order, each
\* once (one extrinsic solve per extrinsic trap), none skipped.
C8_PhasesInOrder ==
    prog = "sim" =>
        /\ trace # << >> => trace[1] = "advance"
        /\ \A k \in 1..(Len(trace) - 1) :
              /\ \/ Rank(trace[k]) < Rank(trace[k + 1])
                 \/ trace[k] = "ext" /\ trace[k + 1] = "ext"
              /\ \A m \in Mandatory :
                    ~(Rank(trace[k]) < Rank(m) /\ Rank(m) < Rank(trace[k + 1]))
        /\ NbPhase("heat") > 0 => T_type = "solve_transient"
        /\ NbPhase("main") > 0 /\ T_type = "solve_transient"
               => NbPhase("heat") = 1
        /\ NbPhase("post") > 0
               => NbPhase("ext") = Cardinality(ExtrinsicTraps)
        /\ NbPhase("ext") <= Cardinality(ExtrinsicTraps)
        /\ pc = "loop" /\ trace # << >> => trace[Len(trace)] = "clip"

\* C8 witness: a completed step that went through all eight phases
C8_Witness ==
    /\ prog = "sim"
    /\ pc = "loop"
    /\ T_type = "solve_transient"
    /\ ExtrinsicTraps # {}
    /\ Len(trace) = 7 + Cardinality(ExtrinsicTraps)
    /\ nb_iterations >= 2

\* the steady-state Simulation.run has ended after a diverged solve
SteadyDivergedEnded ==
    /\ prog = "sim"
    /\ ~transient
    /\ pc \in {"done", "error"}
    /\ ~converged

C10_AcceptedEntriesEvaluate ==
    dq_pc # "failed_run"
\* the boundary conditions have been defined without an error
BoundaryConditionsDefined ==
    /\ prog \in {"sim", "htp"}
    /\ pc \in {"create_H_fluxes", "ready", "create_formulation"}
    /\ err = ""

\* the boundary conditions declared for a species on a surface
ConditionsOn(sp, surf) ==
    {k \in 1..Len(boundary_conditions) :
        /\ boundary_conditions[k].species = sp
        /\ surf \in boundary_conditions[k].surfaces}

\* C11: after a set-up that did not fail, no surface+species pair carries
\* more than one boundary condition (two conditions on the same species and
\* a common surface make the set-up fail).
C11_NoConflictingBoundaryConditions ==
    BoundaryConditionsDefined =>
        \A sp \in Components : \A surf \in Surfaces :
            Cardinality(ConditionsOn(sp, surf)) <= 1
\* create_formulation of the HydrogenTransportProblem has been called
FormulationCalled ==
    /\ prog = "htp"
    /\ pc \notin {"initialise", "define_boundary_conditions",
                  "create_formulation"}

\* C12: create_formulation raises if and only if more than one source is
\* declared, and when it raises the formulation attribute still has the
\* value it had before the call (None, as set by the constructor).
C12_RaisesIffSeveralSources ==
    FormulationCalled =>
        /\ (err = "NotImplementedError") <=> (Len(sources) > 1)
        /\ (err = "NotImplementedError"
                => formulation = [defined |-> FALSE, terms |-> << >>])
        /\ (Len(sources) <= 1 => formulation.defined)

\* C12 witness: the call has raised for two sources, formulation untouched
C12_Witness ==
    /\ FormulationCalled
    /\ Len(sources) = 2
    /\ err = "NotImplementedError"
    /\ ~formulation.defined

\* C13: once create_formulation has returned, the formulation holds a term
\* for every declared source; a source is never silently ignored.
C13_EverySourceHasATerm ==
    FormulationCalled /\ formulation.defined =>
        \A k \in 1..Len(sources) :
            \E j \in 1..Len(formulation.terms) :
                /\ formulation.terms[j].kind = "source"
                /\ formulation.terms[j].of = sources[k]
\* C19: in the time loops of HydrogenTransportProblem.run and of the
\* solubility test case the time never exceeds final_time, and the loop ends
\* with t equal to final_time, for every stepsize.
C19_LoopsEndAtFinalTime ==
    prog \in {"htp", "cas"} /\ transient =>
        /\ t <= final_time
        /\ (pc = "done" => t = final_time)
\* C14: in steady-state mode the formulation of the script is built and
\* holds no term that divides by the stepsize, neither for the solute nor
\* for a trap, neither in the mobile equation nor in a trap's own equation.
C14_NoTimeDerivativeInSteadyState ==
    prog = "cas" /\ ~transient /\ pc \notin {"run", "formulation"} =>
        /\ formulation.defined
        /\ \A k \in 1..Len(formulation.terms) :
              formulation.terms[k].kind # "time_derivative"

RECURSIVE Total(_, _)
Total(c, i) == IF i > Len(c) THEN 0 ELSE c[i] + Total(c, i + 1)

\* C18: with no boundary flux the amount held by the solute and the traps
\* together is, after the main solve of a step and after every accepted
\* step, the amount held at the start.
C18_InventoryConserved ==
    prog = "cas" /\ transient =>
        /\ previous_mobile_inventory + Total(previous_trap_inventory, 1)
              = initial_inventory
        /\ (pc \in {"ext", "post", "commit"}
              => mobile_inventory + Total(trap_inventory, 1)
                    = initial_inventory)

\* the concentration of the solute at a dof
MobileAt(d) ==
    IF solubility = << >> THEN solutions[1][d]
    ELSE solutions[1][d] * solubility[d]

RECURSIVE TrappedAt(_, _)
TrappedAt(i, d) ==
    IF i > Len(solutions) THEN 0 ELSE solutions[i][d] + TrappedAt(i + 1, d)

\* the post-processing call has bound the retention
RetentionBound ==
    \/ prog = "post" /\ res # << >>
    \/ prog = "sim" /\ label_to_function # << >>

RetentionField ==
    IF prog = "post" THEN res[Len(solutions) + 1]
    ELSE label_to_function.retention

\* C15: the field bound to "retention", in run_post_processing of
\* post_processing.py and in Simulation.run_post_processing, is at every
\* dof the concentration of the solute (theta*S if there is a solubility,
\* the solved variable otherwise) plus the concentration of every trap,
\* each once.
C15_RetentionIsTheSum ==
    RetentionBound =>
        \A d \in Dofs : RetentionField[d] = MobileAt(d) + TrappedAt(2, d)

\* C15 witness: a solubility of 2 and two traps; at a dof where the solved
\* variable and both traps hold 1 the retention is 4
C15_Witness ==
    /\ prog = "post"
    /\ pc = "done"
    /\ solubility = Uniform(2)
    /\ Len(solutions) = 3
    /\ \E d \in Dofs :
          /\ solutions[1][d] = 1
          /\ solutions[2][d] = 1
          /\ solutions[3][d] = 1
          /\ res[4][d] = 4

\* the values of the field with a label at the dofs of a volume
ValuesIn(label, vol) ==
    LET at(d) ==
            IF label = "solute" THEN MobileAt(d)
            ELSE IF label = "retention" THEN MobileAt(d) + TrappedAt(2, d)
            ELSE IF label = "T" THEN T
            ELSE LET k == CHOOSE j \in 1..(Len(solutions) - 1) :
                              ToString(j) = label
                 IN  solutions[k + 1][d]
    IN  {at(d) : d \in {e \in Dofs : \E c \in Cells :
                            volume_markers[c] = vol /\ e \in cell_dofs(c)}}

IsExtremum(q) ==
    LET vals == ValuesIn(q.field, q.volume)
    IN  /\ tab[q] \in vals
        /\ \A v \in vals : IF q.kind = "minimum_volume" THEN tab[q] <= v
                           ELSE v <= tab[q]

\* C17: every minimum_volume and maximum_volume value computed by
\* derived_quantities is the least, resp. the greatest, dof value of its
\* field over the cells of its volume; for "retention" the field is the sum
\* of the solute and the traps.
C17_ExtremaOverTheSubdomain ==
    prog = "post" /\ pc = "done" => \A q \in DOMAIN tab : IsExtremum(q)

\* the script keeps a derived-quantity history in a transient run
KeepsHistory ==
    /\ prog = "cas"
    /\ transient
    /\ export_derived_quantities
    /\ formulation.defined

ModeSelected == pc \notin {"create_settings", "select_mode"}

\* no time step was taken and no solve of a time step was made
NoStepTaken ==
    /\ t = 0
    /\ nb_iterations = 0
    /\ step_times = << >>
    /\ trace = << >>
    /\ ~main_converged

\* C20: once the mode is selected, the type "solve_transient" gives a
\* transient run whose dt is a stepsize object; the type "solve_stationary"
\* gives a steady run: dt is bound to no stepsize object, no time step is
\* taken, solve_once is called at most once and exactly once in a run that
\* returns; any other value of the type ends the set-up with a ValueError,
\* with no time step, no solve and no post-processing.
C20_TypeSelectsTheMode ==
    /\ solving_type = "solve_transient" /\ ModeSelected =>
          /\ transient
          /\ steady_solves = 0
          /\ pc # "create_stepsize" => dt_object \in {"Stepsize", "Constant"}
    /\ solving_type = "solve_stationary" /\ ModeSelected =>
          /\ ~transient
          /\ dt_object \in {"None", "0"}
          /\ NoStepTaken
          /\ steady_solves <= 1
          /\ returned => steady_solves = 1
    /\ solving_type \notin {"solve_transient", "solve_stationary", "missing"}
          => /\ pc \in {"create_settings", "select_mode", "error"}
             /\ pc = "error" => err = "ValueError"
             /\ NoStepTaken
             /\ steady_solves = 0
             /\ post_runs = 0
             /\ dt_object = "unset"
             /\ ~returned

\* C20 witness: a steady run of Simulation, selected by "solve_stationary",
\* that has returned after its one solve
C20_Witness ==
    /\ prog = "sim"
    /\ solving_type = "solve_stationary"
    /\ ~transient
    /\ dt_object = "None"
    /\ steady_solves = 1
    /\ returned

\* the exceptions the docstring of check_keys_derived_quantities announces
\* for a dict with one quantity key holding one entry
AnnouncedErrors ==
    LET key == derived_quantities_key
        f == derived_quantities_entry
        field == f.field
        n == Len(traps)
        digits == field.kind = "str" /\ IsDigit(field.str)
        raised(defect, exception) == IF defect THEN {exception} ELSE {}
    IN  IF key \in {"file", "folder"} THEN {}
        ELSE IF key \notin quantity_types THEN {"ValueError"}
        ELSE raised(field.kind = "missing", "KeyError")
             \cup raised(/\ field.kind = "int"
                         /\ (field.num < 0 \/ field.num > n), "ValueError")
             \cup raised(/\ digits
                         /\ field.str \notin field_types
                         /\ IntOfStr(field.str) > n, "ValueError")
             \cup raised(/\ field.kind = "str"
                         /\ ~digits
                         /\ field.str \notin field_types, "ValueError")
             \cup raised(~f.surfaces /\ ~f.volumes, "KeyError")

\* C21: once the header has been asked for, check_keys_derived_quantities
\* has raised if and only if the specification has one of the announced
\* defects, and what it raised is the exception announced for a defect the
\* specification has.
C21_ChecksWhatItAnnounces ==
    dq_pc \notin {"off", "header"} =>
        LET r == check_keys_derived_quantities(
                     derived_quantities_key, derived_quantities_entry,
                     Len(traps))
        IN  /\ r = "ok" <=> AnnouncedErrors = {}
            /\ r # "ok" => /\ r \in AnnouncedErrors
                           /\ dq_pc = "failed_setup"
                           /\ dq_err = r

\* C21 witness: the field "2" with a single trap was rejected by ValueError
C21_Witness ==
    /\ dq_pc = "failed_setup"
    /\ dq_err = "ValueError"
    /\ derived_quantities_key \in quantity_types
    /\ derived_quantities_entry.field = StrField("2")
    /\ Len(traps) = 1

\* how many entries of a list satisfy a test
Count(list, Test(_)) == Cardinality({k \in 1..Len(list) : Test(list[k])})

\* C22: when the set-up of the boundary conditions of a Simulation is done,
\* the objects are the declarations, one each and in order, a Dirichlet
\* object for a Dirichlet type and a flux object for any other; on every
\* surface and for every hydrogen component there are as many constraints
\* as Dirichlet declarations and as many flux terms as other declarations;
\* and no constraint and no term of the residual comes from a condition of
\* the temperature.
C22_RealisedInOneWay ==
    prog = "sim" /\ pc = "ready" =>
        /\ Len(boundary_conditions) = Len(bc_parameters)
        /\ \A k \in 1..Len(bc_parameters) :
              /\ boundary_conditions[k].species = bc_parameters[k].species
              /\ boundary_conditions[k].surfaces = bc_parameters[k].surfaces
              /\ boundary_conditions[k].class =
                    IF bc_parameters[k].type \in bc_types.dc
                    THEN "DirichletBC" ELSE "FluxBC"
        /\ \A sp \in Components : \A x \in Surfaces :
              LET Declared(dirichlet) ==
                      Count(bc_parameters,
                            LAMBDA d : /\ d.species = sp
                                       /\ x \in d.surfaces
                                       /\ (d.type \in bc_types.dc)
                                              = dirichlet)
              IN  /\ Count(bcs, LAMBDA e : e.species = sp /\ e.surface = x)
                        = Declared(TRUE)
                  /\ Count(formulation.terms,
                           LAMBDA e : /\ e.kind = "flux"
                                      /\ e.of = sp
                                      /\ e.on = x)
                        = Declared(FALSE)
        /\ \A k \in 1..Len(bcs) : bcs[k].species # TComponent
        /\ \A k \in 1..Len(formulation.terms) :
              formulation.terms[k].of # TComponent

\* C22 witness: a flux condition of the solute on two surfaces and a
\* Dirichlet condition of the temperature are declared and set up: two
\* terms, no constraint
C22_Witness ==
    /\ prog = "sim"
    /\ pc = "ready"
    /\ bcs = << >>
    /\ Len(formulation.terms) = 2
    /\ \E k \in 1..Len(boundary_conditions) :
          /\ boundary_conditions[k].species = TComponent
          /\ boundary_conditions[k].class = "DirichletBC"

\* C23: in a step of Simulation.iterate whose main solve has been accepted,
\* the time of the step is the time of the last accepted step plus the
\* stepsize the accepted solve was made with, whether or not solve_it
\* shrank the stepsize on the way.
C23_TimeFollowsTheAcceptedStepsize ==
    SimTransient /\ pc \in {"ext", "post", "commit"} =>
        t = last_commit.t + solved_with

\* the passes k of 1..n with (k - 1) a multiple of every
ComputedSteps(n, every) ==
    SelectSeq([k \in 1..n |-> k], LAMBDA k : (k - 1) % every = 0)

\* C24: with nb_iterations_between_compute = N, the derived quantities are
\* computed in the post-processing pass of the k-th accepted step exactly
\* when k - 1 is a multiple of N: the first step is always computed, and so
\* is the single pass of a steady-state run.
C24_ComputedEveryNSteps ==
    prog = "sim" /\ export_derived_quantities =>
        computed_at = ComputedSteps(post_runs, nb_iterations_between_compute)

\* three accepted steps with N = 2: computed in the first and the third
C24_Witness ==
    /\ prog = "sim"
    /\ transient
    /\ export_derived_quantities
    /\ nb_iterations_between_compute = 2
    /\ post_runs = 3
    /\ computed_at = << 1, 3 >>

\* C30: of the snapshots of an XDMF export the first written is written in
\* overwrite mode and every later one in append mode; the append flag is
\* true only once a snapshot has been written, and never false again.
C30_FirstOverwritesLaterAppend ==
    /\ [](export_xdmf =>
            /\ \A i \in 1..Len(xdmf_writes) :
                   xdmf_writes[i] = IF i = 1 THEN "overwrite" ELSE "append"
            /\ xdmf_append => xdmf_writes # << >>)
    /\ [][xdmf_append => xdmf_append']_vars

\* three passes of a run of Simulation, a snapshot written in two of them
C30_Witness ==
    /\ prog = "sim"
    /\ export_xdmf
    /\ post_runs = 3
    /\ xdmf_writes = << "overwrite", "append" >>
    /\ xdmf_append

\* HydrogenTransportProblem.initialise has returned
InitialiseReturned ==
    /\ prog = "htp"
    /\ pc \in {"loop", "solve", "post", "commit", "done"}

\* C25: once HydrogenTransportProblem.initialise has returned, and so
\* before the first time step, no boundary condition has a string in
\* bc.species and no export has a string in export.field.
C25_ReferencesResolved ==
    InitialiseReturned =>
        /\ \A k \in DOMAIN bc_species : bc_species[k] = "Species"
        /\ \A e \in DOMAIN export_field :
              \A i \in DOMAIN export_field[e] :
                  export_field[e][i] = "Species"

\* initialise has returned for a flux condition and an export that named
\* their species, and no step has been taken
C25_Witness ==
    /\ InitialiseReturned
    /\ pc = "loop"
    /\ times = << >>
    /\ initialise_calls = 1
    /\ Len(boundary_conditions) = 1
    /\ boundary_conditions[1].class = "FluxBC"
    /\ declared = << << "name" >>, << << "Species", "name" >> >> >>
    /\ bc_species = << "Species" >>
    /\ export_field = << << "Species", "Species" >> >>

\* what one call of initialise leaves in the three attributes
InitialisedOnce ==
    /\ volume_subdomains = subdomains
    /\ bcs = EntriesOfClass(boundary_conditions, "DirichletBC", 1)
    /\ formulation.terms = create_formulation(species, subdomains, 0)

\* C28: HydrogenTransportProblem.initialise called twice on the same model
\* leaves volume_subdomains, bc_forms and the formulation as one call does:
\* no subdomain, constraint or term is duplicated.
C28_InitialiseIsIdempotent ==
    InitialiseReturned /\ initialise_calls = 2 => InitialisedOnce

\* the order of a step of run
StepOrder == << "advance", "update", "solve", "post", "export", "commit" >>

\* times has one entry per step, strictly increasing
OnePerStep ==
    /\ Len(times) = post_runs
    /\ \A k \in 1..(Len(times) - 1) : times[k] < times[k + 1]

\* one flux series per species, each as long as times
OneSeriesPerSpecies ==
    IF species = 1
    THEN Len(flux_values.flux_values) = Len(times)
    ELSE /\ Len(flux_values.flux_values) = species
         /\ \A i \in 1..species :
               Len(flux_values.flux_values[i]) = Len(times)

\* C29: for one or more species HydrogenTransportProblem.run raises
\* nothing of its own (only a solver that does not converge ends it early)
\* and returns one time per step, strictly increasing, with one flux series
\* per species as long as the times; in a step the boundary conditions are
\* updated before the solve and u_n is overwritten after the solve and the
\* export writes.
C29_RunReturnsTimesAndFluxes ==
    prog = "htp" =>
        /\ pc = "error" =>
              err \in {"NotImplementedError", "UnknownSpeciesError",
                       "RuntimeError"}
        /\ pc = "done" => OnePerStep /\ OneSeriesPerSpecies
        /\ \E n \in 0..Len(StepOrder) : trace = SubSeq(StepOrder, 1, n)
        /\ (trace # << >> /\ pc = "loop") => trace = StepOrder

\* C26: for the list the script hands to compute_error, "solute" is looked
\* up as the mobile field, "retention" as the sum of the mobile and all the
\* trap fields, "T" as the temperature, an integer or a digit string n as
\* the n-th solution, and any other string raises KeyError, for any number
\* of traps.
C26_ErrorReferencesResolve ==
    prog = "cas" /\ pc = "done" /\ computed_solutions # NoReference =>
        LET ref == computed_solutions
            n == IF ref.kind = "int" THEN ref.num ELSE IntOfStr(ref.str)
        IN  /\ (ref.kind = "str" /\ ref.str = "solute")
                  => computed_sol = Found(solutions[1])
            /\ (ref.kind = "str" /\ ref.str = "retention")
                  => computed_sol = Found(sum(solutions))
            /\ (ref.kind = "str" /\ ref.str = "T")
                  => computed_sol = Found(Uniform(T))
            /\ ((ref.kind = "int" \/ (ref.kind = "str" /\ IsDigit(ref.str)))
                    /\ 0 <= n /\ n < Len(solutions))
                  => computed_sol = Found(solutions[n + 1])
            /\ (ref.kind = "str" /\ ~IsDigit(ref.str)
                    /\ ref.str \notin {"solute", "retention", "T"})
                  => computed_sol = Raised("KeyError")

\* the place of a quantity in the order of the columns
QuantityRank ==
    [q \in quantity_types \cup {"t"} |->
        CASE q = "t" -> 0
          [] q = "surface_flux" -> 1
          [] q = "average_volume" -> 2
          [] q = "minimum_volume" -> 3
          [] q = "maximum_volume" -> 4
          [] q = "total_volume" -> 5
          [] OTHER -> 6]

\* the number of (entry, surface or volume) pairs declared
RECURSIVE NbPairs(_, _)
NbPairs(quantity, entries) ==
    IF entries = << >> THEN 0
    ELSE Len(IF quantity \in SurfaceQuantities
             THEN entries[1].surfaces ELSE entries[1].volumes)
            + NbPairs(quantity, Tail(entries))

RECURSIVE NbPairsOver(_, _)
NbPairsOver(d, quantities) ==
    IF quantities = {} THEN 0
    ELSE LET q == CHOOSE x \in quantities : TRUE
         IN  NbPairs(q, d[q]) + NbPairsOver(d, quantities \ {q})

\* C27: the header and every row of the derived quantities have the same
\* length and the same columns in the same order: the time, then the
\* surface fluxes, the volume averages, minima, maxima and totals and the
\* surface totals, one column per entry and surface or volume, in the
\* order of declaration.
C27_RowsFollowTheHeader ==
    prog = "cas" /\ pc \in {"row", "done"} =>
        /\ derived_quantities_global # << >>
        /\ derived_quantities_global[1][1] = TimeColumn
        /\ Len(derived_quantities_global[1]) =
              1 + NbPairsOver(dq_parameters, quantity_types)
        /\ \A i, j \in DOMAIN derived_quantities_global[1] :
              i < j =>
                  QuantityRank[derived_quantities_global[1][i].quantity]
                    <= QuantityRank[derived_quantities_global[1][j].quantity]
        /\ \A r \in 2..Len(derived_quantities_global) :
              derived_quantities_global[r] = derived_quantities_global[1]

\* a row under a header with a maximum and a total over two volumes each
C27_Witness ==
    /\ prog = "cas"
    /\ pc = "done"
    /\ Len(derived_quantities_global) = 2
    /\ derived_quantities_global[2] =
          << TimeColumn,
             Column("maximum_volume", "retention", 2),
             Column("maximum_volume", "retention", 1),
             Column("total_volume", "solute", 2),
             Column("total_volume", "solute", 1) >>
====
